---- MODULE Spec2Model ----
(***************************************************************************)
(* LighterMe: weekly analytics over the stored weight and waist entries.   *)
(*                                                                         *)
(* The model follows services/storageService (src/unnamed/part_001) and    *)
(* hooks/useWeeklyAnalytics.ts.                                            *)
(*                                                                         *)
(* Abstractions:                                                           *)
(*  - a JavaScript Date is a record [day, ms]: the number of local days    *)
(*    since 1970-01-01 and the milliseconds elapsed in that local day.     *)
(*    The local zone has no daylight-saving transitions.                   *)
(*  - a string is a sequence of one-character strings.                     *)
(*  - weights and measurements are integers (tenths of a unit); a          *)
(*    quotient is an exact fraction [num, den] in lowest terms, so the     *)
(*    rounding of IEEE doubles is not modelled.                            *)
(*  - Array.prototype.sort is stable (ECMAScript 2019).                    *)
(*  - a call of the storage service is one step: the collections do not   *)
(*    change between the reads of one call.                                *)
(***************************************************************************)
EXTENDS Integers, Sequences, FiniteSets, TLC

(***************************************************************************)
(* JavaScript Date                                                         *)
(***************************************************************************)

\* Date field accessors work on the proleptic Gregorian calendar.
DaysFromCivil(y, m, d) ==
    LET yy  == IF m <= 2 THEN y - 1 ELSE y
        era == yy \div 400
        yoe == yy - era * 400
        mp  == IF m > 2 THEN m - 3 ELSE m + 9
        doy == (153 * mp + 2) \div 5 + d - 1
        doe == yoe * 365 + yoe \div 4 - yoe \div 100 + doy
    IN  era * 146097 + doe - 719468

CivilFromDays(z) ==
    LET zz  == z + 719468
        era == zz \div 146097
        doe == zz - era * 146097
        yoe == (doe - doe \div 1460 + doe \div 36524 - doe \div 146096) \div 365
        doy == doe - (365 * yoe + yoe \div 4 - yoe \div 100)
        mp  == (5 * doy + 2) \div 153
        d   == doy - (153 * mp + 2) \div 5 + 1
        m   == IF mp < 10 THEN mp + 3 ELSE mp - 9
        y   == yoe + era * 400 + (IF m <= 2 THEN 1 ELSE 0)
    IN  [y |-> y, m |-> m, d |-> d]

\* Date.prototype.getFullYear / getMonth (0-based) / getDate / getDay (0 = Sunday)
getFullYear(date) == CivilFromDays(date.day).y
getMonth(date) == CivilFromDays(date.day).m - 1
getDate(date) == CivilFromDays(date.day).d
getDay(date) == (date.day + 4) % 7

\* Date.prototype.setDate(n): day n of the current month, n may lie outside it.
setDate(date, n) ==
    LET civil == CivilFromDays(date.day)
    IN  [date EXCEPT !.day = DaysFromCivil(civil.y, civil.m, 1) + n - 1]

\* Date.prototype.setHours(h, m, s, ms)
setHours(date, h, mi, s, ms) ==
    [date EXCEPT !.ms = ((h * 60 + mi) * 60 + s) * 1000 + ms]

\* a.getTime() <= b.getTime(), the comparison of Date objects by <= and >=
DateLE(a, b) == a.day < b.day \/ (a.day = b.day /\ a.ms <= b.ms)

(***************************************************************************)
(* Strings                                                                 *)
(***************************************************************************)

DigitChar == <<"0", "1", "2", "3", "4", "5", "6", "7", "8", "9">>

DigitVal(c) ==
    CASE c = "0" -> 0 [] c = "1" -> 1 [] c = "2" -> 2 [] c = "3" -> 3 [] c = "4" -> 4
      [] c = "5" -> 5 [] c = "6" -> 6 [] c = "7" -> 7 [] c = "8" -> 8 [] c = "9" -> 9

\* `${n}` of a number 0 <= n <= 9999, without leading zeros
NumToStr(n) ==
    IF n < 10 THEN <<DigitChar[n + 1]>>
    ELSE IF n < 100 THEN <<DigitChar[(n \div 10) + 1], DigitChar[(n % 10) + 1]>>
    ELSE IF n < 1000 THEN <<DigitChar[(n \div 100) + 1], DigitChar[((n \div 10) % 10) + 1],
                            DigitChar[(n % 10) + 1]>>
    ELSE <<DigitChar[(n \div 1000) + 1], DigitChar[((n \div 100) % 10) + 1],
           DigitChar[((n \div 10) % 10) + 1], DigitChar[(n % 10) + 1]>>

\* the number written by the digits s[from..to]
RECURSIVE StrToNum(_, _, _)
StrToNum(s, from, to) ==
    IF to < from THEN 0 ELSE StrToNum(s, from, to - 1) * 10 + DigitVal(s[to])

\* The YYYY-MM-DD literal of a date, as the date pickers and the examples write it.
Str(y, m, d) ==
    NumToStr(y) \o <<"-">> \o (IF m < 10 THEN <<"0">> ELSE <<>>) \o NumToStr(m)
                \o <<"-">> \o (IF d < 10 THEN <<"0">> ELSE <<>>) \o NumToStr(d)

(***************************************************************************)
(* Date utilities (Monday-based weeks)                                     *)
(***************************************************************************)

\* A plausible slip: Sunday handled like the other days.
getWeekStart_NoSundayCase(date) ==
    LET day  == getDay(date)
        diff == 1 - day
    IN  setHours(setDate(date, getDate(date) + diff), 0, 0, 0, 0)

getWeekStart(date) ==
    LET day  == getDay(date)
        diff == IF day = 0 THEN -6 ELSE 1 - day
    IN  setHours(setDate(date, getDate(date) + diff), 0, 0, 0, 0)

getWeekEnd(date) ==
    LET weekStart == getWeekStart(date)
    IN  setHours(setDate(weekStart, getDate(weekStart) + 6), 23, 59, 59, 999)

pad(n) == IF n < 10 THEN <<"0">> \o NumToStr(n) ELSE NumToStr(n)

toISODateString(date) ==
    LET year  == getFullYear(date)
        month == getMonth(date) + 1
        day   == getDate(date)
    IN  NumToStr(year) \o <<"-">> \o pad(month) \o <<"-">> \o pad(day)

\* A plausible slip: new Date(dateString), which reads a date-only string as
\* UTC midnight: 19:00 of the day before in a zone five hours behind UTC.
parseISODate_AsUTC(dateString) ==
    [day |-> DaysFromCivil(StrToNum(dateString, 1, 4),
                           StrToNum(dateString, 6, 7),
                           StrToNum(dateString, 9, 10)) - 1,
     ms  |-> 68400000]

\* new Date(dateString + 'T00:00:00'): local midnight of the day written.
parseISODate(dateString) ==
    [day |-> DaysFromCivil(StrToNum(dateString, 1, 4),
                           StrToNum(dateString, 6, 7),
                           StrToNum(dateString, 9, 10)),
     ms  |-> 0]

\* new Date(dateString).getTime() of a date-only string: UTC midnight of the
\* day written, in days (every operand of the comparators has ms = 0).
DateOnlyTime(dateString) ==
    DaysFromCivil(StrToNum(dateString, 1, 4),
                  StrToNum(dateString, 6, 7),
                  StrToNum(dateString, 9, 10))

(***************************************************************************)
(* Numbers                                                                 *)
(***************************************************************************)

\* null
Null == [null |-> TRUE]

\* a value that may be null: what AsyncStorage.getItem gives for a key that is
\* set, what find gives when an element matches
Item(value) == [value |-> value]

RECURSIVE Gcd(_, _)
Gcd(a, b) == IF b = 0 THEN a ELSE Gcd(b, a % b)

Abs(n) == IF n < 0 THEN -n ELSE n

\* the number n / d (d > 0), in lowest terms
Frac(n, d) ==
    LET g == Gcd(Abs(n), d)
    IN  [num |-> n \div g, den |-> d \div g]

\* a - b on numbers
Sub(a, b) == Frac(a.num * b.den - b.num * a.den, a.den * b.den)

\* values.reduce((sum, w) => sum + w, 0)
RECURSIVE Sum(_)
Sum(values) ==
    IF values = <<>> THEN 0 ELSE Sum(SubSeq(values, 1, Len(values) - 1)) + values[Len(values)]

\* Math.min(...values) and Math.max(...values) of a non-empty array
MathMin(values) ==
    CHOOSE v \in {values[i] : i \in 1..Len(values)} :
        \A j \in 1..Len(values) : v <= values[j]

MathMax(values) ==
    CHOOSE v \in {values[i] : i \in 1..Len(values)} :
        \A j \in 1..Len(values) : v >= values[j]

(***************************************************************************)
(* Arrays                                                                  *)
(***************************************************************************)

\* entries.filter(keep), with keep given as the set of indices kept
RECURSIVE FilterIdx(_, _, _)
FilterIdx(entries, kept, i) ==
    IF i > Len(entries) THEN <<>>
    ELSE (IF i \in kept THEN <<entries[i]>> ELSE <<>>) \o FilterIdx(entries, kept, i + 1)

\* Stable insertion of e into a date-sorted array: after every element whose
\* time is not greater (the comparator a - b keeps equal elements in order).
RECURSIVE InsertByDate(_, _)
InsertByDate(sorted, e) ==
    IF sorted = <<>> THEN <<e>>
    ELSE IF DateOnlyTime(sorted[Len(sorted)].date) - DateOnlyTime(e.date) <= 0
         THEN Append(sorted, e)
         ELSE Append(InsertByDate(SubSeq(sorted, 1, Len(sorted) - 1), e), sorted[Len(sorted)])

\* A plausible slip: the sort left out.
SortByDate_Unsorted(entries) == entries

\* entries.sort((a, b) => new Date(a.date).getTime() - new Date(b.date).getTime())
RECURSIVE SortByDate(_)
SortByDate(entries) ==
    IF entries = <<>> THEN <<>>
    ELSE InsertByDate(SortByDate(SubSeq(entries, 1, Len(entries) - 1)), entries[Len(entries)])

(***************************************************************************)
(* Analytics and queries                                                   *)
(***************************************************************************)

\* getWeightEntriesForWeek and getWaistEntriesForWeek have the same body; the
\* stored collection read by getWeightEntries / getWaistEntries is allEntries.
EntriesForWeek(allEntries, weekStart) ==
    LET start == parseISODate(weekStart)
        end   == getWeekEnd(start)
        kept  == {i \in 1..Len(allEntries) :
                     LET entryDate == parseISODate(allEntries[i].date)
                     IN  DateLE(start, entryDate) /\ DateLE(entryDate, end)}
    IN  SortByDate(FilterIdx(allEntries, kept, 1))

\* A plausible slip: one entry kept per date.
getWeightEntriesForWeek_OnePerDate(allEntries, weekStart) ==
    LET found == EntriesForWeek(allEntries, weekStart)
    IN  FilterIdx(found, {i \in 1..Len(found) :
                             \A j \in 1..(i - 1) : found[j].date # found[i].date}, 1)

getWeightEntriesForWeek(allEntries, weekStart) == EntriesForWeek(allEntries, weekStart)

getWaistEntriesForWeek(allEntries, weekStart) == EntriesForWeek(allEntries, weekStart)

\* A plausible slip: the mean of no value is zero.
Average_ZeroOnEmpty(values) ==
    IF Len(values) > 0 THEN Frac(Sum(values), Len(values)) ELSE Frac(0, 1)

\* weights.length > 0 ? weights.reduce(...) / weights.length : null
Average(values) ==
    IF Len(values) > 0 THEN Frac(Sum(values), Len(values)) ELSE Null

\* A plausible slip: a missing operand counts as zero.
Change_NullAsZero(a, b) ==
    Sub(IF a = Null THEN Frac(0, 1) ELSE a, IF b = Null THEN Frac(0, 1) ELSE b)

\* a !== null && b !== null ? a - b : null
Change(a, b) == IF a # Null /\ b # Null THEN Sub(a, b) ELSE Null

\* A plausible slip: the first entry of the week instead of the last.
LatestMeasurement_First(entries) ==
    IF Len(entries) > 0 THEN Frac(entries[1].measurement, 1) ELSE Null

\* entries.length > 0 ? entries[entries.length - 1].measurement : null
LatestMeasurement(entries) ==
    IF Len(entries) > 0 THEN Frac(entries[Len(entries)].measurement, 1) ELSE Null

\* toISODateString(getWeekStart(d)) where d is the date n days before weekStart
WeekStartDaysBefore(weekStart, n) ==
    LET currentWeekDate == parseISODate(weekStart)
        d == setDate(currentWeekDate, getDate(currentWeekDate) - n)
    IN  toISODateString(getWeekStart(d))

\* A plausible slip: '4w' looks three weeks back.
weeksAgo_ThreeWeeks(comparisonPeriod) ==
    IF comparisonPeriod = "1w" THEN 1 ELSE IF comparisonPeriod = "2w" THEN 2 ELSE 3

weeksAgo(comparisonPeriod) ==
    IF comparisonPeriod = "1w" THEN 1 ELSE IF comparisonPeriod = "2w" THEN 2 ELSE 4

\* A plausible slip: the first stored entry taken for the earliest.
EarliestWeekStart_Unsorted(allEntries) ==
    LET earliestDate == parseISODate(allEntries[1].date)
    IN  toISODateString(getWeekStart(earliestDate))

\* the week of the earliest entry of a non-empty collection
EarliestWeekStart(allEntries) ==
    LET sortedEntries == SortByDate(allEntries)
        earliestDate  == parseISODate(sortedEntries[1].date)
    IN  toISODateString(getWeekStart(earliestDate))

\* the comparison entries after the fallback to the earliest available data
WithFallback(comparisonEntries, allEntries) ==
    IF Len(comparisonEntries) = 0 /\ Len(allEntries) > 0
    THEN EntriesForWeek(allEntries, EarliestWeekStart(allEntries))
    ELSE comparisonEntries

\* The computation of the record from the entries fetched.
WeeklyStatsOf(weekStart, weekEntries, waistEntries_, previousWeekEntries, previousWaistEntries, comparisonWeekEntries, comparisonWaistEntries) ==
    LET weights == [i \in 1..Len(weekEntries) |-> weekEntries[i].weight]
        weightAverage == Average(weights)
        weightMin == IF Len(weights) > 0 THEN Frac(MathMin(weights), 1) ELSE Null
        weightMax == IF Len(weights) > 0 THEN Frac(MathMax(weights), 1) ELSE Null
        previousWeights == [i \in 1..Len(previousWeekEntries) |-> previousWeekEntries[i].weight]
        previousWeekAverage == Average(previousWeights)
        comparisonWeights ==
            [i \in 1..Len(comparisonWeekEntries) |-> comparisonWeekEntries[i].weight]
        comparisonPeriodAverage == Average(comparisonWeights)
        currentWeekWaist == LatestMeasurement(waistEntries_)
        previousWeekWaist == LatestMeasurement(previousWaistEntries)
        comparisonPeriodWaist == LatestMeasurement(comparisonWaistEntries)
    IN  [weekStart |-> weekStart,
         weekEnd |-> toISODateString(getWeekEnd(parseISODate(weekStart))),
         weightAverage |-> weightAverage,
         weightMin |-> weightMin,
         weightMax |-> weightMax,
         weightCount |-> Len(weekEntries),
         previousWeekAverage |-> previousWeekAverage,
         weekOverWeekChange |-> Change(weightAverage, previousWeekAverage),
         comparisonPeriodAverage |-> comparisonPeriodAverage,
         comparisonPeriodChange |-> Change(weightAverage, comparisonPeriodAverage),
         waistMeasurements |-> waistEntries_,
         currentWeekWaist |-> currentWeekWaist,
         previousWeekWaist |-> previousWeekWaist,
         waistWeekOverWeekChange |-> Change(currentWeekWaist, previousWeekWaist),
         comparisonPeriodWaist |-> comparisonPeriodWaist,
         comparisonWaistChange |-> Change(currentWeekWaist, comparisonPeriodWaist)]

\* A plausible slip: one test guards both fallbacks.
getWeeklyStats_SharedFallback(weightStore, waistStore, weekStart, comparisonPeriod) ==
    LET previousWeekStart   == WeekStartDaysBefore(weekStart, 7)
        comparisonWeekStart == WeekStartDaysBefore(weekStart, 7 * weeksAgo(comparisonPeriod))
        comparisonWeekEntries == getWeightEntriesForWeek(weightStore, comparisonWeekStart)
        comparisonWaistEntries == getWaistEntriesForWeek(waistStore, comparisonWeekStart)
    IN  WeeklyStatsOf(weekStart,
                      getWeightEntriesForWeek(weightStore, weekStart),
                      getWaistEntriesForWeek(waistStore, weekStart),
                      getWeightEntriesForWeek(weightStore, previousWeekStart),
                      getWaistEntriesForWeek(waistStore, previousWeekStart),
                      WithFallback(comparisonWeekEntries, weightStore),
                      IF Len(comparisonWeekEntries) = 0
                      THEN WithFallback(comparisonWaistEntries, waistStore)
                      ELSE comparisonWaistEntries)

\* The stores are what getWeightEntries and getWaistEntries read during the call.
getWeeklyStats(weightStore, waistStore, weekStart, comparisonPeriod) ==
    LET previousWeekStart   == WeekStartDaysBefore(weekStart, 7)
        comparisonWeekStart == WeekStartDaysBefore(weekStart, 7 * weeksAgo(comparisonPeriod))
    IN  WeeklyStatsOf(weekStart,
                      getWeightEntriesForWeek(weightStore, weekStart),
                      getWaistEntriesForWeek(waistStore, weekStart),
                      getWeightEntriesForWeek(weightStore, previousWeekStart),
                      getWaistEntriesForWeek(waistStore, previousWeekStart),
                      WithFallback(getWeightEntriesForWeek(weightStore, comparisonWeekStart),
                                   weightStore),
                      WithFallback(getWaistEntriesForWeek(waistStore, comparisonWeekStart),
                                   waistStore))

(***************************************************************************)
(* Bounds and inputs                                                       *)
(***************************************************************************)

\* at most this many entries are stored, weight and waist together
MaxEntries == 3

\* the dates the user logs measurements for: Wednesday 2024-05-01, and the
\* Monday and the Sunday of the week of 2024-05-27
EntryDates == {Str(2024, 5, 1), Str(2024, 5, 27), Str(2024, 6, 2)}

WeightValues == {780, 800}

WaistValues == {900, 920}

ComparisonPeriods == {"1w", "2w", "4w"}

\* new Date() while the app is used: Wednesday 2024-06-05, 10:30
Todays == {[day |-> DaysFromCivil(2024, 6, 5), ms |-> 37800000]}

\* the string handed to navigateToWeek: a Wednesday
NavTargets == {Str(2024, 5, 29)}

\* week navigation stays within this many weeks before and after the week of now
MaxWeeksBack == 1
MaxWeeksAhead == 3

(***************************************************************************)
(* State                                                                   *)
(***************************************************************************)

VARIABLES
    weightEntries,      \* AsyncStorage 'weight_entries', parsed
    waistEntries,       \* AsyncStorage 'waist_entries', parsed
    currentWeekStart,   \* useWeeklyAnalytics: the selected week
    now,                \* new Date(), and Date.now() as its timestamp
    autoBackup,         \* AsyncStorage 'auto_backup_enabled' and 'last_backup_date',
                        \* and the names of the files of the auto-backups directory
    result,             \* what the last query returned; NoCall after any other call
    launch,             \* useAutoBackup: the hook of the running app
    pending,            \* the calls of the storage service in flight, by caller
    home,               \* the home screen: its state and its loads in flight
    analytics,          \* useWeeklyAnalytics: its state and its loads in flight
    waistLog            \* useWaistLog: the entries it lists

\* the state of the hooks and screens beside the analytics screen
screenVars == <<home, analytics, waistLog>>
hookVars == <<launch, pending, screenVars>>

vars == <<weightEntries, waistEntries, currentWeekStart, now, autoBackup, result, hookVars>>

NoCall == [op |-> "none"]

\* a fresh install: neither key stored, no auto-backups directory
NoAutoBackup == [enabled |-> Null, lastBackupDate |-> Null, files |-> {}]

NoNotes == "undefined"

\* the app not running: no hook instance, no timer
NoLaunch ==
    [running |-> FALSE, mounted |-> FALSE, hasChecked |-> FALSE, cleanup |-> FALSE,
     timers |-> 0, checks |-> 0]

\* the callers that may have a call of the storage service in flight
Callers == {1, 2}

\* a caller without a call in flight
Idle == [phase |-> "idle"]

\* the home screen not opened
NoHome == [mounted |-> FALSE, todayDate |-> <<>>, todayEntry |-> Null, loads |-> {}]

\* useWeeklyAnalytics not rendered: useState(null), useState(false), the
\* comparison period of the default argument
NoAnalytics == [mounted |-> FALSE, period |-> "1w", stats |-> Null, loading |-> FALSE,
                loads |-> {}]

\* useWaistLog over the empty store: useState([]), and what loadEntries of
\* its effect sets
NoWaistLog == [entries |-> <<>>]

\* no hook or screen has done anything yet
HooksIdle ==
    /\ launch = NoLaunch
    /\ pending = [c \in Callers |-> Idle]
    /\ home = NoHome
    /\ analytics = NoAnalytics
    /\ waistLog = NoWaistLog

\* The random suffix of a new id: one no stored id of the collection carries.
FreshSuffix(entries) ==
    CHOOSE r \in 1..(Len(entries) + 1) :
        /\ \A i \in 1..Len(entries) : entries[i].id[3] # r
        /\ \A q \in 1..(r - 1) : \E i \in 1..Len(entries) : entries[i].id[3] = q

IndexOfDate(entries, date) ==
    IF \E i \in 1..Len(entries) : entries[i].date = date
    THEN CHOOSE i \in 1..Len(entries) :
             entries[i].date = date /\ \A j \in 1..(i - 1) : entries[j].date # date
    ELSE -1

Init ==
    /\ weightEntries = <<>>
    /\ waistEntries = <<>>
    /\ now \in Todays
    /\ currentWeekStart = toISODateString(getWeekStart(now))
    /\ autoBackup = NoAutoBackup
    /\ result = NoCall
    /\ HooksIdle

(***************************************************************************)
(* Storage operations                                                      *)
(***************************************************************************)

saveWeightEntry(date, weight, notes) ==
    /\ Len(weightEntries) + Len(waistEntries) < MaxEntries
    /\ LET newEntry == [id |-> <<"weight", now, FreshSuffix(weightEntries)>>,
                        date |-> date, weight |-> weight, notes |-> notes,
                        createdAt |-> now, updatedAt |-> now]
       IN  weightEntries' = Append(weightEntries, newEntry)
    /\ result' = NoCall
    /\ UNCHANGED <<waistEntries, currentWeekStart, now, autoBackup, hookVars>>

\* A plausible slip: saved like a weight entry, always appended.
WaistEntriesAfterSave_AlwaysAppend(entries, date, measurement, notes, at) ==
    Append(entries, [id |-> <<"waist", at, FreshSuffix(entries)>>,
                     date |-> date, measurement |-> measurement,
                     notes |-> notes, createdAt |-> at, updatedAt |-> at])

\* the collection saveWaistEntry writes when Date.now() is at
WaistEntriesAfterSave(entries, date, measurement, notes, at) ==
    LET existingIndex == IndexOfDate(entries, date)
    IN  IF existingIndex # -1
        THEN [entries EXCEPT ![existingIndex] =
                 [@ EXCEPT !.measurement = measurement,
                           !.notes = notes,
                           !.updatedAt = at]]
        ELSE LET newEntry == [id |-> <<"waist", at, FreshSuffix(entries)>>,
                              date |-> date, measurement |-> measurement,
                              notes |-> notes, createdAt |-> at, updatedAt |-> at]
             IN  Append(entries, newEntry)

saveWaistEntry(date, measurement, notes) ==
    /\ IndexOfDate(waistEntries, date) = -1 =>
           Len(weightEntries) + Len(waistEntries) < MaxEntries
    /\ waistEntries' = WaistEntriesAfterSave(waistEntries, date, measurement, notes, now)
    /\ result' = NoCall
    /\ UNCHANGED <<weightEntries, currentWeekStart, now, autoBackup, hookVars>>

IndexOfId(entries, id) ==
    IF \E i \in 1..Len(entries) : entries[i].id = id
    THEN CHOOSE i \in 1..Len(entries) :
             entries[i].id = id /\ \A j \in 1..(i - 1) : entries[j].id # id
    ELSE -1

\* { ...entries[index], ...updates, id, createdAt, updatedAt: Date.now() }
\* written to the collection; nothing is written for an unknown id
WaistEntriesAfterUpdate(entries, id, updates, at) ==
    LET index == IndexOfId(entries, id)
    IN  IF index = -1 THEN entries
        ELSE [entries EXCEPT ![index] =
                 [f \in DOMAIN entries[index] |->
                     IF f = "updatedAt" THEN at
                     ELSE IF f \in {"id", "createdAt"} THEN entries[index][f]
                     ELSE IF f \in DOMAIN updates THEN updates[f]
                     ELSE entries[index][f]]]

\* entries.filter((e) => e.id !== id)
WaistEntriesAfterDelete(entries, id) ==
    FilterIdx(entries, {i \in 1..Len(entries) : entries[i].id # id}, 1)

(***************************************************************************)
(* useWeeklyAnalytics: week navigation and the queries of the analytics    *)
(* screen                                                                  *)
(***************************************************************************)

navigateToWeek(weekStart) ==
    /\ currentWeekStart' = weekStart
    /\ result' = NoCall
    /\ UNCHANGED <<weightEntries, waistEntries, now, autoBackup, hookVars>>

goToPreviousWeek ==
    /\ parseISODate(WeekStartDaysBefore(currentWeekStart, 7)).day
           >= getWeekStart(now).day - 7 * MaxWeeksBack
    /\ currentWeekStart' = WeekStartDaysBefore(currentWeekStart, 7)
    /\ result' = NoCall
    /\ UNCHANGED <<weightEntries, waistEntries, now, autoBackup, hookVars>>

goToNextWeek ==
    /\ parseISODate(WeekStartDaysBefore(currentWeekStart, -7)).day
           <= getWeekStart(now).day + 7 * MaxWeeksAhead
    /\ currentWeekStart' = WeekStartDaysBefore(currentWeekStart, -7)
    /\ result' = NoCall
    /\ UNCHANGED <<weightEntries, waistEntries, now, autoBackup, hookVars>>

goToCurrentWeek ==
    /\ currentWeekStart' = toISODateString(getWeekStart(now))
    /\ result' = NoCall
    /\ UNCHANGED <<weightEntries, waistEntries, now, autoBackup, hookVars>>

\* getWeeklyStats(currentWeekStart, period), as loadStats of the hook calls it.
\* A query changes nothing but result, so a query that follows a query returns
\* what it returns when issued first: queries are issued with no result held.
queryWeeklyStats(period) ==
    /\ result = NoCall
    /\ result' = [op |-> "getWeeklyStats", period |-> period,
                  stats |-> getWeeklyStats(weightEntries, waistEntries, currentWeekStart, period)]
    /\ UNCHANGED <<weightEntries, waistEntries, currentWeekStart, now, autoBackup, hookVars>>

\* getWeightEntriesForWeek(currentWeekStart) and getWaistEntriesForWeek(
\* currentWeekStart), as loadWeekEntries of the analytics screen calls them
queryWeekEntries ==
    /\ result = NoCall
    /\ result' = [op |-> "getEntriesForWeek", weekStart |-> currentWeekStart,
                  weekEntries |-> getWeightEntriesForWeek(weightEntries, currentWeekStart),
                  waistEntries |-> getWaistEntriesForWeek(waistEntries, currentWeekStart)]
    /\ UNCHANGED <<weightEntries, waistEntries, currentWeekStart, now, autoBackup, hookVars>>

Next ==
    \/ \E d \in EntryDates, w \in WeightValues : saveWeightEntry(d, w, NoNotes)
    \/ \E d \in EntryDates, m \in WaistValues : saveWaistEntry(d, m, NoNotes)
    \/ \E s \in NavTargets : navigateToWeek(s)
    \/ goToPreviousWeek
    \/ goToNextWeek
    \/ goToCurrentWeek
    \/ \E p \in ComparisonPeriods : queryWeeklyStats(p)
    \/ queryWeekEntries

Spec == Init /\ [][Next]_vars

(***************************************************************************)
(* The calendar functions on their own: the week of an arbitrary moment    *)
(***************************************************************************)

\* the moments the week functions are applied to: every day of the
\* CalendarDays days from Monday 2023-12-18 on (a year end and a leap day),
\* at midnight, at 10:30 and at the last millisecond of the day
CalendarDays == 84
CalendarDates ==
    {[day |-> DaysFromCivil(2023, 12, 18) + k, ms |-> t] :
        k \in 0..(CalendarDays - 1), t \in {0, 37800000, 86399999}}

InitCalendar ==
    /\ weightEntries = <<>>
    /\ waistEntries = <<>>
    /\ now \in CalendarDates
    /\ currentWeekStart = toISODateString(getWeekStart(now))
    /\ autoBackup = NoAutoBackup
    /\ result = NoCall
    /\ HooksIdle

\* getWeekStart(new Date()) and getWeekEnd(new Date())
weekOfNow ==
    /\ result = NoCall
    /\ result' = [op |-> "weekOf", date |-> now,
                  weekStart |-> getWeekStart(now), weekEnd |-> getWeekEnd(now)]
    /\ UNCHANGED <<weightEntries, waistEntries, currentWeekStart, now, autoBackup, hookVars>>

\* toISODateString(new Date()) parsed back, and the date string of today
\* parsed and formatted again
roundTripOfNow ==
    /\ result = NoCall
    /\ LET civil == CivilFromDays(now.day)
           dateString == Str(civil.y, civil.m, civil.d)
       IN  result' = [op |-> "roundTrip", date |-> now, dateString |-> dateString,
                      reformatted |-> toISODateString(parseISODate(dateString)),
                      formatted |-> toISODateString(now),
                      reparsed |-> parseISODate(toISODateString(now))]
    /\ UNCHANGED <<weightEntries, waistEntries, currentWeekStart, now, autoBackup, hookVars>>

NextCalendar == weekOfNow \/ roundTripOfNow

SpecCalendar == InitCalendar /\ [][NextCalendar]_vars

(***************************************************************************)
(* Storage reads that fail.  getWeightEntries and getWaistEntries catch    *)
(* the rejection of AsyncStorage.getItem and return [], so a call of       *)
(* getWeeklyStats, which reads each collection up to five times, goes on   *)
(* with whatever each read returned.                                       *)
(***************************************************************************)

\* at most this many reads fail while a week's statistics are loaded
MaxFailedReads == 1

\* what a read returns: the parsed collection, [] when getItem rejects
getWeightEntries(stored, ok) == IF ok THEN stored ELSE <<>>

getWaistEntries(stored, ok) == IF ok THEN stored ELSE <<>>

\* the fallback to the earliest available data, on what its two reads
\* return: the collection read directly and the one read by the week query
WithFallbackReading(comparisonEntries, allEntries, allEntriesAgain) ==
    IF Len(comparisonEntries) = 0 /\ Len(allEntries) > 0
    THEN EntriesForWeek(allEntriesAgain, EarliestWeekStart(allEntries))
    ELSE comparisonEntries

\* getWeeklyStats when its i-th read of the weight collection returns
\* weightReads[i] and its i-th read of the waist collection waistReads[i]
getWeeklyStatsReading(weightReads, waistReads, weekStart, comparisonPeriod) ==
    LET previousWeekStart   == WeekStartDaysBefore(weekStart, 7)
        comparisonWeekStart == WeekStartDaysBefore(weekStart, 7 * weeksAgo(comparisonPeriod))
    IN  WeeklyStatsOf(weekStart,
                      EntriesForWeek(weightReads[1], weekStart),
                      EntriesForWeek(waistReads[1], weekStart),
                      EntriesForWeek(weightReads[2], previousWeekStart),
                      EntriesForWeek(waistReads[2], previousWeekStart),
                      WithFallbackReading(EntriesForWeek(weightReads[3], comparisonWeekStart),
                                          weightReads[4], weightReads[5]),
                      WithFallbackReading(EntriesForWeek(waistReads[3], comparisonWeekStart),
                                          waistReads[4], waistReads[5]))

\* the number of reads of one collection a call makes: three week queries,
\* the direct read of the fallback, and the week query of the earliest week
ReadsMade(reads, weekStart, comparisonPeriod) ==
    LET comparisonWeekStart == WeekStartDaysBefore(weekStart, 7 * weeksAgo(comparisonPeriod))
    IN  IF Len(EntriesForWeek(reads[3], comparisonWeekStart)) # 0 THEN 3
        ELSE IF Len(reads[4]) > 0 THEN 5 ELSE 4

FailedCount(ok) == Cardinality({i \in 1..5 : ~ok[i]})

\* which reads succeed: one flag for each of the five reads of a collection
ReadOutcomes == {ok \in [1..5 -> BOOLEAN] : FailedCount(ok) <= MaxFailedReads}

\* the hook's state after loadStats(currentWeekStart, period): no read of
\* getWeeklyStats rejects, so the try block completes, setStats(data) runs
\* and error keeps the null of setError(null)
LoadedStats(period, weightOk, waistOk, previous) ==
    LET weightReads == [i \in 1..5 |-> getWeightEntries(weightEntries, weightOk[i])]
        waistReads  == [i \in 1..5 |-> getWaistEntries(waistEntries, waistOk[i])]
    IN  [op |-> "loadStats", period |-> period,
         failedReads |-> FailedCount(weightOk) + FailedCount(waistOk),
         stats |-> getWeeklyStatsReading(weightReads, waistReads, currentWeekStart, period),
         error |-> Null,
         stored |-> <<weightEntries, waistEntries>>,
         previous |-> previous]

\* a flag is false only for a read the call makes
OutcomesOfCall(period, weightOk, waistOk) ==
    /\ \A i \in 1..5 :
           ~weightOk[i] =>
               i <= ReadsMade([j \in 1..5 |-> getWeightEntries(weightEntries, weightOk[j])],
                              currentWeekStart, period)
    /\ \A i \in 1..5 :
           ~waistOk[i] =>
               i <= ReadsMade([j \in 1..5 |-> getWaistEntries(waistEntries, waistOk[j])],
                              currentWeekStart, period)

\* loadStats(currentWeekStart, period), as the effect of the hook calls it
\* and as refresh() calls it again with the period of the load before
loadStats(period, weightOk, waistOk) ==
    /\ result.op \in {"none", "loadStats"}
    /\ result.op = "loadStats" => (result.previous = Null /\ period = result.period)
    /\ (IF result.op = "loadStats" THEN result.failedReads ELSE 0)
           + FailedCount(weightOk) + FailedCount(waistOk) <= MaxFailedReads
    /\ OutcomesOfCall(period, weightOk, waistOk)
    /\ result' = LoadedStats(period, weightOk, waistOk,
                             IF result.op = "loadStats" THEN result ELSE Null)
    /\ UNCHANGED <<weightEntries, waistEntries, currentWeekStart, now, autoBackup, hookVars>>

NextStorageFaults ==
    \/ \E d \in EntryDates : saveWeightEntry(d, 780, NoNotes)
    \/ \E d \in EntryDates : saveWaistEntry(d, 900, NoNotes)
    \/ goToPreviousWeek
    \/ goToCurrentWeek
    \/ \E p \in ComparisonPeriods, weightOk \in ReadOutcomes, waistOk \in ReadOutcomes :
           loadStats(p, weightOk, waistOk)

SpecStorageFaults == Init /\ [][NextStorageFaults]_vars

(***************************************************************************)
(* useWeeklyAnalytics with its loads in flight.  A call of loadStats sets  *)
(* loading, awaits getWeeklyStats, and on resolution sets the stats and    *)
(* clears loading; the effect calls it after every change of the week or   *)
(* of the period.                                                          *)
(***************************************************************************)

\* at most this many calls of loadStats are in flight
MaxLoadsInFlight == 2

\* a call of loadStats(weekStart, period) that has not resolved
StatsLoad(weekStart, period) == [weekStart |-> weekStart, period |-> period]

\* loadStats up to its await: setLoading(true), the call in flight
Loading(a, weekStart, period) ==
    [a EXCEPT !.loading = TRUE, !.loads = @ \cup {StatsLoad(weekStart, period)}]

CanLoad(weekStart, period) ==
    \/ StatsLoad(weekStart, period) \in analytics.loads
    \/ Cardinality(analytics.loads) < MaxLoadsInFlight

WithinWeeks(weekStart) ==
    /\ parseISODate(weekStart).day >= getWeekStart(now).day - 7 * MaxWeeksBack
    /\ parseISODate(weekStart).day <= getWeekStart(now).day + 7 * MaxWeeksAhead

\* the hook rendered for the first time: the effect calls loadStats
openAnalytics ==
    /\ ~analytics.mounted
    /\ analytics' = Loading([analytics EXCEPT !.mounted = TRUE], currentWeekStart,
                            analytics.period)
    /\ result' = NoCall
    /\ UNCHANGED <<weightEntries, waistEntries, currentWeekStart, now, autoBackup, launch, pending, home, waistLog>>

\* setCurrentWeekStart(weekStart), as navigateToWeek, goToPreviousWeek,
\* goToNextWeek and goToCurrentWeek call it; the effect calls loadStats when
\* the week has changed
setCurrentWeekStart(weekStart) ==
    /\ analytics.mounted
    /\ weekStart # currentWeekStart
    /\ WithinWeeks(weekStart)
    /\ CanLoad(weekStart, analytics.period)
    /\ currentWeekStart' = weekStart
    /\ analytics' = Loading(analytics, weekStart, analytics.period)
    /\ result' = NoCall
    /\ UNCHANGED <<weightEntries, waistEntries, now, autoBackup, launch, pending, home, waistLog>>

\* the hook rendered with another comparisonPeriod: the effect calls loadStats
changePeriod(period) ==
    /\ analytics.mounted
    /\ period # analytics.period
    /\ CanLoad(currentWeekStart, period)
    /\ analytics' = Loading([analytics EXCEPT !.period = period], currentWeekStart, period)
    /\ result' = NoCall
    /\ UNCHANGED <<weightEntries, waistEntries, currentWeekStart, now, autoBackup, launch, pending, home, waistLog>>

\* refresh(): loadStats(currentWeekStart, comparisonPeriod)
refreshStats ==
    /\ analytics.mounted
    /\ CanLoad(currentWeekStart, analytics.period)
    /\ analytics' = Loading(analytics, currentWeekStart, analytics.period)
    /\ result' = NoCall
    /\ UNCHANGED <<weightEntries, waistEntries, currentWeekStart, now, autoBackup, launch, pending, home, waistLog>>

\* a call of loadStats resolves: setStats(data), setLoading(false)
loadStatsResolves(load) ==
    /\ load \in analytics.loads
    /\ analytics' = [analytics EXCEPT
                        !.stats = Item(getWeeklyStats(weightEntries, waistEntries,
                                                      load.weekStart, load.period)),
                        !.loading = FALSE,
                        !.loads = @ \ {load}]
    /\ result' = NoCall
    /\ UNCHANGED <<weightEntries, waistEntries, currentWeekStart, now, autoBackup, launch, pending, home, waistLog>>

NextAnalytics ==
    \/ saveWeightEntry(Str(2024, 6, 2), 780, NoNotes)
    \/ openAnalytics
    \/ \E s \in NavTargets : setCurrentWeekStart(s)
    \/ setCurrentWeekStart(WeekStartDaysBefore(currentWeekStart, 7))
    \/ setCurrentWeekStart(WeekStartDaysBefore(currentWeekStart, -7))
    \/ setCurrentWeekStart(toISODateString(getWeekStart(now)))
    \/ \E p \in ComparisonPeriods : changePeriod(p)
    \/ refreshStats
    \/ \E load \in analytics.loads : loadStatsResolves(load)

SpecAnalytics == Init /\ [][NextAnalytics]_vars

(***************************************************************************)
(* useWaistLog: the waist log edited while time passes                     *)
(***************************************************************************)

\* Date.now() at the calls: the moment the app is opened and the millisecond
\* after it
Moments == {[today EXCEPT !.ms = @ + k] : today \in Todays, k \in {0, 1}}

\* at most this many waist entries are logged
MaxWaistEntries == 2

\* the dates of the waist log: Monday 2024-06-03 and the day after
WaistLogDates == {Str(2024, 6, 3), Str(2024, 6, 4)}

\* what the waist form submits
WaistForms == {[measurement |-> 900, notes |-> NoNotes],
               [measurement |-> 920, notes |-> "after run"]}

\* the updates handed to updateWaistEntry: the edit form's fields, or another
\* field of Partial<WaistEntry>
WaistUpdates == WaistForms \cup {[date |-> d] : d \in WaistLogDates}

\* the ids handed to the hook: those of the entries listed, and a stale one
WaistIds == {waistEntries[i].id : i \in 1..Len(waistEntries)} \cup {<<"waist", now, 0>>}

tick ==
    /\ [now EXCEPT !.ms = @ + 1] \in Moments
    /\ now' = [now EXCEPT !.ms = @ + 1]
    /\ result' = NoCall
    /\ UNCHANGED <<weightEntries, waistEntries, currentWeekStart, autoBackup, hookVars>>

\* addEntry(date, measurement, notes): saveWaistEntry
addEntry(date, measurement, notes) ==
    /\ IndexOfDate(waistEntries, date) = -1 => Len(waistEntries) < MaxWaistEntries
    /\ waistEntries' = WaistEntriesAfterSave(waistEntries, date, measurement, notes, now)
    /\ result' = [op |-> "saveWaistEntry", before |-> waistEntries, at |-> now,
                  date |-> date, measurement |-> measurement, notes |-> notes]
    /\ UNCHANGED <<weightEntries, currentWeekStart, now, autoBackup, hookVars>>

\* editEntry(id, updates): updateWaistEntry
editEntry(id, updates) ==
    /\ waistEntries' = WaistEntriesAfterUpdate(waistEntries, id, updates, now)
    /\ result' = [op |-> "updateWaistEntry", before |-> waistEntries, at |-> now,
                  id |-> id, updates |-> updates]
    /\ UNCHANGED <<weightEntries, currentWeekStart, now, autoBackup, hookVars>>

\* removeEntry(id): deleteWaistEntry
removeEntry(id) ==
    /\ waistEntries' = WaistEntriesAfterDelete(waistEntries, id)
    /\ result' = [op |-> "deleteWaistEntry", before |-> waistEntries, at |-> now, id |-> id]
    /\ UNCHANGED <<weightEntries, currentWeekStart, now, autoBackup, hookVars>>

NextWaistLog ==
    \/ tick
    \/ \E d \in WaistLogDates, form \in WaistForms : addEntry(d, form.measurement, form.notes)
    \/ \E id \in WaistIds, updates \in WaistUpdates : editEntry(id, updates)
    \/ \E id \in WaistIds : removeEntry(id)

SpecWaistLog == Init /\ [][NextWaistLog]_vars

(***************************************************************************)
(* useWaistLog: the entries the hook lists                                 *)
(***************************************************************************)

\* the hook lists at most this many entries
MaxListed == 3

\* Stable insertion of e into an array sorted newest first: after every
\* element whose time is not smaller.
RECURSIVE InsertNewestFirst(_, _)
InsertNewestFirst(sorted, e) ==
    IF sorted = <<>> THEN <<e>>
    ELSE IF DateOnlyTime(e.date) - DateOnlyTime(sorted[Len(sorted)].date) <= 0
         THEN Append(sorted, e)
         ELSE Append(InsertNewestFirst(SubSeq(sorted, 1, Len(sorted) - 1), e),
                     sorted[Len(sorted)])

\* entries.sort((a, b) => new Date(b.date).getTime() - new Date(a.date).getTime())
RECURSIVE SortNewestFirst(_)
SortNewestFirst(entries) ==
    IF entries = <<>> THEN <<>>
    ELSE InsertNewestFirst(SortNewestFirst(SubSeq(entries, 1, Len(entries) - 1)),
                           entries[Len(entries)])

\* what saveWaistEntry returns: the entry of the date
SavedWaistEntry(after, date) == after[IndexOfDate(after, date)]

\* addEntry(date, measurement, notes) of useWaistLog, addWaist on the home
\* screen: saveWaistEntry, then setEntries([...prev, newEntry].sort(...))
addWaist(date, measurement, notes) ==
    /\ Len(waistLog.entries) < MaxListed
    /\ LET after == WaistEntriesAfterSave(waistEntries, date, measurement, notes, now)
       IN  /\ waistEntries' = after
           /\ waistLog' = [waistLog EXCEPT !.entries =
                              SortNewestFirst(Append(@, SavedWaistEntry(after, date)))]
           /\ result' = [op |-> "addWaist", before |-> waistEntries, listed |-> waistLog.entries,
                         date |-> date, returned |-> SavedWaistEntry(after, date)]
    /\ UNCHANGED <<weightEntries, currentWeekStart, now, autoBackup, launch, pending, home, analytics>>

\* refresh() of useWaistLog: loadEntries, setEntries(data)
loadEntries ==
    /\ waistLog' = [waistLog EXCEPT !.entries = waistEntries]
    /\ result' = NoCall
    /\ UNCHANGED <<weightEntries, waistEntries, currentWeekStart, now, autoBackup, launch, pending, home, analytics>>

NextWaistList ==
    \/ tick
    \/ \E d \in WaistLogDates, form \in WaistForms : addWaist(d, form.measurement, form.notes)
    \/ loadEntries

SpecWaistList == Init /\ [][NextWaistList]_vars

(***************************************************************************)
(* updateWeightEntry and updateWaistEntry called with any fields of the    *)
(* entry type                                                              *)
(***************************************************************************)

\* A plausible slip: the updates spread after the preserved fields.
WeightEntriesAfterUpdate_UpdatesLast(entries, id, updates, at) ==
    LET index == IndexOfId(entries, id)
    IN  IF index = -1 THEN entries
        ELSE [entries EXCEPT ![index] =
                 [f \in DOMAIN entries[index] |->
                     IF f \in DOMAIN updates THEN updates[f]
                     ELSE IF f = "updatedAt" THEN at
                     ELSE entries[index][f]]]

\* { ...entries[index], ...updates, id, createdAt, updatedAt: Date.now() }
\* written to the weight collection; nothing is written for an unknown id
WeightEntriesAfterUpdate(entries, id, updates, at) ==
    LET index == IndexOfId(entries, id)
    IN  IF index = -1 THEN entries
        ELSE [entries EXCEPT ![index] =
                 [f \in DOMAIN entries[index] |->
                     IF f = "updatedAt" THEN at
                     ELSE IF f \in {"id", "createdAt"} THEN entries[index][f]
                     ELSE IF f \in DOMAIN updates THEN updates[f]
                     ELSE entries[index][f]]]

\* what the update returns: entries[index] as written, null for an unknown id
UpdateReturned(after, id) ==
    IF IndexOfId(after, id) = -1 THEN Null ELSE after[IndexOfId(after, id)]

\* 1970-01-01T00:00:00.000, the timestamp 0
Epoch == [day |-> 0, ms |-> 0]

\* an id and a creation time no stored entry has
ForeignWeightId == <<"weight", Epoch, 7>>

ForeignWaistId == <<"waist", Epoch, 7>>

\* the updates handed over: a field of the form, the date, the id, the
\* creation time, and all of them
WeightUpdates ==
    {[weight |-> 800], [date |-> Str(2024, 6, 3)], [id |-> ForeignWeightId],
     [createdAt |-> Epoch],
     [id |-> ForeignWeightId, createdAt |-> Epoch, updatedAt |-> Epoch, weight |-> 800]}

WaistFieldUpdates ==
    {[measurement |-> 920], [date |-> Str(2024, 6, 3)], [id |-> ForeignWaistId],
     [createdAt |-> Epoch],
     [id |-> ForeignWaistId, createdAt |-> Epoch, updatedAt |-> Epoch, measurement |-> 920]}

\* the ids handed over: those stored, and one that is not
WeightIds == {weightEntries[i].id : i \in 1..Len(weightEntries)} \cup {ForeignWeightId}

StoredWaistIds == {waistEntries[i].id : i \in 1..Len(waistEntries)} \cup {ForeignWaistId}

updateWeightEntry(id, updates) ==
    /\ result = NoCall
    /\ weightEntries' = WeightEntriesAfterUpdate(weightEntries, id, updates, now)
    /\ result' = [op |-> "updateWeightEntry", id |-> id, updates |-> updates, at |-> now,
                  before |-> weightEntries, other |-> waistEntries,
                  returned |-> UpdateReturned(WeightEntriesAfterUpdate(weightEntries, id, updates, now), id)]
    /\ UNCHANGED <<waistEntries, currentWeekStart, now, autoBackup, hookVars>>

updateWaistEntry(id, updates) ==
    /\ result = NoCall
    /\ waistEntries' = WaistEntriesAfterUpdate(waistEntries, id, updates, now)
    /\ result' = [op |-> "updateWaistEntry", id |-> id, updates |-> updates, at |-> now,
                  before |-> waistEntries, other |-> weightEntries,
                  returned |-> UpdateReturned(WaistEntriesAfterUpdate(waistEntries, id, updates, now), id)]
    /\ UNCHANGED <<weightEntries, currentWeekStart, now, autoBackup, hookVars>>

\* the result of the update looked at
dismissResult ==
    /\ result # NoCall
    /\ result' = NoCall
    /\ UNCHANGED <<weightEntries, waistEntries, currentWeekStart, now, autoBackup, hookVars>>

NextUpdates ==
    \/ tick
    \/ saveWeightEntry(Str(2024, 6, 2), 780, NoNotes)
    \/ saveWaistEntry(Str(2024, 6, 2), 900, NoNotes)
    \/ \E id \in WeightIds, updates \in WeightUpdates : updateWeightEntry(id, updates)
    \/ \E id \in StoredWaistIds, updates \in WaistFieldUpdates : updateWaistEntry(id, updates)
    \/ dismissResult

SpecUpdates == Init /\ [][NextUpdates]_vars

(***************************************************************************)
(* Saves in flight together.  A save awaits the read of the collection,    *)
(* then awaits the write of the whole array it read with its entry in it;  *)
(* other calls run between the two.                                        *)
(***************************************************************************)

InFlight == {c \in Callers : pending[c].phase = "read"}

\* the suffixes of the ids stored, about to be written or returned
UsedSuffixes ==
    {weightEntries[i].id[3] : i \in 1..Len(weightEntries)}
        \cup {waistEntries[i].id[3] : i \in 1..Len(waistEntries)}
        \cup {pending[c].returned.id[3] : c \in {d \in Callers : pending[d].phase # "idle"}}

\* Math.random(): a suffix no other id carries
RandomSuffix == CHOOSE r \in 1..(Cardinality(UsedSuffixes) + 1) : r \notin UsedSuffixes

\* saveWeightEntry up to the await of setItem: the collection read, the new
\* entry pushed onto what was read
saveWeightReads(c, date, weight, notes) ==
    /\ pending[c] = Idle
    /\ Len(weightEntries) + Len(waistEntries) + Cardinality(InFlight) < MaxEntries
    /\ LET newEntry == [id |-> <<"weight", now, RandomSuffix>>, date |-> date,
                        weight |-> weight, notes |-> notes,
                        createdAt |-> now, updatedAt |-> now]
       IN  pending' = [pending EXCEPT ![c] =
                          [phase |-> "read", op |-> "saveWeightEntry",
                           entries |-> Append(weightEntries, newEntry),
                           returned |-> newEntry]]
    /\ UNCHANGED <<weightEntries, waistEntries, currentWeekStart, now, autoBackup, result, launch, screenVars>>

\* saveWaistEntry up to the await of setItem: the collection read, the entry
\* of the date replaced in what was read, or a new entry pushed onto it
saveWaistReads(c, date, measurement, notes) ==
    /\ pending[c] = Idle
    /\ Len(weightEntries) + Len(waistEntries) + Cardinality(InFlight) < MaxEntries
    /\ LET index   == IndexOfDate(waistEntries, date)
           saved   == WaistEntriesAfterSave(waistEntries, date, measurement, notes, now)
           entries == IF index # -1 THEN saved
                      ELSE [saved EXCEPT ![Len(saved)].id = <<"waist", now, RandomSuffix>>]
       IN  pending' = [pending EXCEPT ![c] =
                          [phase |-> "read", op |-> "saveWaistEntry",
                           entries |-> entries,
                           returned |-> IF index # -1 THEN entries[index]
                                        ELSE entries[Len(entries)]]]
    /\ UNCHANGED <<weightEntries, waistEntries, currentWeekStart, now, autoBackup, result, launch, screenVars>>

\* setItem of the array of the call, and the entry returned
saveWrites(c) ==
    /\ pending[c].phase = "read"
    /\ IF pending[c].op = "saveWeightEntry"
       THEN weightEntries' = pending[c].entries /\ UNCHANGED waistEntries
       ELSE waistEntries' = pending[c].entries /\ UNCHANGED weightEntries
    /\ pending' = [pending EXCEPT ![c] =
                      [phase |-> "returned", op |-> pending[c].op,
                       returned |-> pending[c].returned]]
    /\ UNCHANGED <<currentWeekStart, now, autoBackup, result, launch, screenVars>>

\* the callers have their entries and go on
callersGoOn ==
    /\ InFlight = {}
    /\ \E c \in Callers : pending[c] # Idle
    /\ pending' = [c \in Callers |-> Idle]
    /\ UNCHANGED <<weightEntries, waistEntries, currentWeekStart, now, autoBackup, result, launch, screenVars>>

\* the dates of the waist saves of the callers: each caller its own
WaistDateOf == [c \in Callers |-> Str(2024, 6, 2 + c)]

NextSaves ==
    \/ \E c \in Callers, w \in WeightValues : saveWeightReads(c, Str(2024, 6, 2), w, NoNotes)
    \/ \E c \in Callers, m \in WaistValues : saveWaistReads(c, WaistDateOf[c], m, NoNotes)
    \/ \E c \in Callers : saveWrites(c)
    \/ callersGoOn

SpecSaves == Init /\ [][NextSaves]_vars

(***************************************************************************)
(* The home screen: the selected date, the entry shown for it, and the     *)
(* loads of that entry that have not resolved yet.                         *)
(***************************************************************************)

\* the dates the date picker of the home screen hands over
HomeDates == {Str(2024, 6, 4), Str(2024, 6, 5)}

\* a call of loadTodayEntry that has not resolved; awaited: handleSaveWeight
\* awaits it, and the input that called handleSaveWeight stays disabled
Load(date, awaited) == [date |-> date, awaited |-> awaited]

\* WeightInput: saving, from the call of onSave until it resolves
Saving == \E load \in home.loads : load.awaited

\* entries.find((e) => e.date === date) || null
getWeightEntryForDate(entries, date) ==
    IF IndexOfDate(entries, date) = -1 THEN Null
    ELSE Item(entries[IndexOfDate(entries, date)])

\* the screen rendered for the first time: the effect calls loadTodayEntry
openHome ==
    /\ ~home.mounted
    /\ home' = [mounted |-> TRUE, todayDate |-> toISODateString(now), todayEntry |-> Null,
                loads |-> {Load(toISODateString(now), FALSE)}]
    /\ result' = NoCall
    /\ UNCHANGED <<weightEntries, waistEntries, currentWeekStart, now, autoBackup, launch, pending, analytics, waistLog>>

\* setTodayDate(newDate); loadTodayEntry is rebuilt and its effect calls it
handleDateChange(newDate) ==
    /\ home.mounted
    /\ newDate # home.todayDate
    /\ home' = [home EXCEPT !.todayDate = newDate, !.loads = @ \cup {Load(newDate, FALSE)}]
    /\ result' = NoCall
    /\ UNCHANGED <<weightEntries, waistEntries, currentWeekStart, now, autoBackup, launch, pending, analytics, waistLog>>

\* the screen comes into focus: loadTodayEntry once more
focusHome ==
    /\ home.mounted
    /\ home' = [home EXCEPT !.loads = @ \cup {Load(home.todayDate, FALSE)}]
    /\ result' = NoCall
    /\ UNCHANGED <<weightEntries, waistEntries, currentWeekStart, now, autoBackup, launch, pending, analytics, waistLog>>

\* a call of loadTodayEntry resolves: setTodayEntry(entry); handleSaveWeight,
\* which awaited it for a date that was not today, goes on to
\* setTodayDate(today)
loadTodayEntryResolves(load) ==
    /\ load \in home.loads
    /\ LET today == toISODateString(now)
           isHistoricalEntry == load.awaited /\ load.date # today
           back  == isHistoricalEntry /\ home.todayDate # today
       IN  home' = [home EXCEPT
                       !.todayEntry = getWeightEntryForDate(weightEntries, load.date),
                       !.todayDate = IF isHistoricalEntry THEN today ELSE @,
                       !.loads = (@ \ {load}) \cup
                                 (IF back THEN {Load(today, FALSE)} ELSE {})]
    /\ result' = NoCall
    /\ UNCHANGED <<weightEntries, waistEntries, currentWeekStart, now, autoBackup, launch, pending, analytics, waistLog>>

\* handleSaveWeight(weight, notes): editWeight of the entry shown, or
\* addWeight for the selected date; then loadTodayEntry
handleSaveWeight(weight, notes) ==
    /\ home.mounted
    /\ ~Saving
    /\ result = NoCall
    /\ IF home.todayEntry # Null
       THEN weightEntries' = WeightEntriesAfterUpdate(weightEntries, home.todayEntry.value.id,
                                 [weight |-> weight, notes |-> notes], now)
       ELSE /\ Len(weightEntries) < MaxEntries
            /\ weightEntries' = Append(weightEntries,
                    [id |-> <<"weight", now, FreshSuffix(weightEntries)>>,
                     date |-> home.todayDate, weight |-> weight, notes |-> notes,
                     createdAt |-> now, updatedAt |-> now])
    /\ home' = [home EXCEPT !.loads = @ \cup {Load(home.todayDate, TRUE)}]
    /\ result' = [op |-> "handleSaveWeight", selected |-> home.todayDate,
                  before |-> weightEntries]
    /\ UNCHANGED <<waistEntries, currentWeekStart, now, autoBackup, launch, pending, analytics, waistLog>>

NextHome ==
    \/ tick
    \/ openHome
    \/ \E d \in HomeDates : handleDateChange(d)
    \/ focusHome
    \/ \E load \in home.loads : loadTodayEntryResolves(load)
    \/ \E w \in WeightValues : handleSaveWeight(w, NoNotes)
    \/ dismissResult

SpecHome == Init /\ [][NextHome]_vars

(***************************************************************************)
(* Backup files.  A JSON value carries its type: undefined is what reading *)
(* a missing property gives; a number is an integer v (tenths of a unit)   *)
(* or, for a timestamp, the day and ms of the Date of that time.           *)
(***************************************************************************)

Undefined == [t |-> "undefined"]

JsonNull == [t |-> "null"]

JString(s) == [t |-> "string", s |-> s]

JNumber(n) == [t |-> "number", v |-> n]

JTime(date) == [t |-> "number", day |-> date.day, ms |-> date.ms]

JArray(items) == [t |-> "array", items |-> items]

\* ToBoolean(x), as && and ! apply it
Truthy(x) ==
    CASE x.t = "undefined" -> FALSE
      [] x.t = "null" -> FALSE
      [] x.t = "string" -> Len(x.s) > 0
      [] x.t = "number" -> IF "v" \in DOMAIN x THEN x.v # 0 ELSE x.day # 0 \/ x.ms # 0
      [] OTHER -> TRUE

\* Array.isArray(x)
IsArray(x) == x.t = "array"

\* JSON.parse(fileContent): the value written in the file, or a SyntaxError
JSONparse(file) ==
    IF file.syntax THEN [threw |-> FALSE, value |-> file.data] ELSE [threw |-> TRUE]

\* the try block of pickAndReadBackupFile and readAutoBackupFile after the
\* file is read: reading data.version of null throws a TypeError, a missing
\* version or array an Error, and the catch block rethrows either with the
\* second message, a SyntaxError with the first
ReadBackup(file, syntaxMessage, otherMessage) ==
    LET parsed == JSONparse(file)
    IN  IF parsed.threw THEN [outcome |-> "thrown", message |-> syntaxMessage]
        ELSE IF parsed.value.t = "null" THEN [outcome |-> "thrown", message |-> otherMessage]
        ELSE IF \/ ~Truthy(parsed.value.version)
                \/ ~IsArray(parsed.value.weightEntries)
                \/ ~IsArray(parsed.value.waistEntries)
             THEN [outcome |-> "thrown", message |-> otherMessage]
             ELSE [outcome |-> "returned", data |-> parsed.value]

\* A plausible slip: every failure rethrown with the same message.
pickAndReadBackupFile_OneMessage(file) ==
    IF ~file.picked THEN [outcome |-> "null"]
    ELSE ReadBackup(file,
             "Failed to read backup file. Please ensure it is a valid LighterMe backup.",
             "Failed to read backup file. Please ensure it is a valid LighterMe backup.")

pickAndReadBackupFile(file) ==
    IF ~file.picked THEN [outcome |-> "null"]
    ELSE ReadBackup(file,
             "The backup file is not valid JSON. Please select a valid LighterMe backup file.",
             "Failed to read backup file. Please ensure it is a valid LighterMe backup.")

readAutoBackupFile(file) ==
    ReadBackup(file, "The backup file is corrupted.", "Failed to read auto-backup file.")

\* the callbacks handed to every(); reading a property of null throws
ValidWeightEntry(entry) ==
    /\ Truthy(entry.id)
    /\ Truthy(entry.date)
    /\ entry.weight.t = "number"
    /\ entry.weight.v > 0
    /\ Truthy(entry.createdAt)
    /\ Truthy(entry.updatedAt)

ValidWaistEntry(entry) ==
    /\ Truthy(entry.id)
    /\ Truthy(entry.date)
    /\ entry.measurement.t = "number"
    /\ entry.measurement.v > 0
    /\ Truthy(entry.createdAt)
    /\ Truthy(entry.updatedAt)

\* entries.every(callback) from index i on: "true", "false" at the first
\* entry the callback rejects, "throws" at a null entry reached before it
RECURSIVE EveryEntry(_, _, _)
EveryEntry(entries, isWeight, i) ==
    IF i > Len(entries) THEN "true"
    ELSE IF entries[i].t = "null" THEN "throws"
    ELSE IF isWeight /\ ~ValidWeightEntry(entries[i]) THEN "false"
    ELSE IF ~isWeight /\ ~ValidWaistEntry(entries[i]) THEN "false"
    ELSE EveryEntry(entries, isWeight, i + 1)

\* false as soon as a check fails, and from the catch block when one throws
validateBackupData(data) ==
    IF EveryEntry(data.weightEntries.items, TRUE, 1) # "true" THEN FALSE
    ELSE IF EveryEntry(data.waistEntries.items, FALSE, 1) # "true" THEN FALSE
    ELSE TRUE

\* the entry a parsed object is once stored and read back
StoredWeightEntry(e) ==
    [id |-> e.id.s, date |-> e.date.s, weight |-> e.weight.v,
     notes |-> IF e.notes.t = "string" THEN e.notes.s ELSE NoNotes,
     createdAt |-> [day |-> e.createdAt.day, ms |-> e.createdAt.ms],
     updatedAt |-> [day |-> e.updatedAt.day, ms |-> e.updatedAt.ms]]

StoredWaistEntry(e) ==
    [id |-> e.id.s, date |-> e.date.s, measurement |-> e.measurement.v,
     notes |-> IF e.notes.t = "string" THEN e.notes.s ELSE NoNotes,
     createdAt |-> [day |-> e.createdAt.day, ms |-> e.createdAt.ms],
     updatedAt |-> [day |-> e.updatedAt.day, ms |-> e.updatedAt.ms]]

\* Alert.alert(title, message); counts are the numbers the message quotes
Alert(title, message, counts) == [title |-> title, message |-> message, counts |-> counts]

\* A plausible slip: the data cleared as soon as the file is read.
RestoreFrom_ClearsFirst(read, failedTitle, invalidAlert, successAlert, weightStored, waistStored) ==
    IF read.outcome = "null"
    THEN [weightEntries |-> weightStored, waistEntries |-> waistStored,
          alert |-> Null, calls |-> <<>>]
    ELSE IF read.outcome = "thrown"
    THEN [weightEntries |-> weightStored, waistEntries |-> waistStored,
          alert |-> Alert(failedTitle, read.message, <<>>), calls |-> <<>>]
    ELSE IF ~validateBackupData(read.data)
    THEN [weightEntries |-> <<>>, waistEntries |-> <<>>,
          alert |-> invalidAlert, calls |-> <<"clearAllData">>]
    ELSE LET weights == read.data.weightEntries.items
             waists  == read.data.waistEntries.items
         IN  [weightEntries |-> [i \in 1..Len(weights) |-> StoredWeightEntry(weights[i])],
              waistEntries |-> [i \in 1..Len(waists) |-> StoredWaistEntry(waists[i])],
              alert |-> [successAlert EXCEPT !.counts = <<Len(weights), Len(waists)>>],
              calls |-> <<"clearAllData", "importAllData">>]

\* The onPress handler of handleImport and of confirmAndRestore from what the
\* file read gave: the collections stored afterwards, the alert shown and
\* the storage calls made.
RestoreFrom(read, failedTitle, invalidAlert, successAlert, weightStored, waistStored) ==
    IF read.outcome = "null"
    THEN [weightEntries |-> weightStored, waistEntries |-> waistStored,
          alert |-> Null, calls |-> <<>>]
    ELSE IF read.outcome = "thrown"
    THEN [weightEntries |-> weightStored, waistEntries |-> waistStored,
          alert |-> Alert(failedTitle, read.message, <<>>), calls |-> <<>>]
    ELSE IF ~validateBackupData(read.data)
    THEN [weightEntries |-> weightStored, waistEntries |-> waistStored,
          alert |-> invalidAlert, calls |-> <<>>]
    ELSE LET weights == read.data.weightEntries.items
             waists  == read.data.waistEntries.items
         IN  [weightEntries |-> [i \in 1..Len(weights) |-> StoredWeightEntry(weights[i])],
              waistEntries |-> [i \in 1..Len(waists) |-> StoredWaistEntry(waists[i])],
              alert |-> [successAlert EXCEPT !.counts = <<Len(weights), Len(waists)>>],
              calls |-> <<"clearAllData", "importAllData">>]

\* what the Import button of handleImport does with the file picked
ImportOf(file, weightStored, waistStored) ==
    RestoreFrom(pickAndReadBackupFile(file), "Import Failed",
                Alert("Invalid File",
                      "The backup file appears to be corrupted or invalid. Please select a valid LighterMe backup file.",
                      <<>>),
                Alert("Import Successful", "Imported weight entries and waist measurements.", <<>>),
                weightStored, waistStored)

\* what the Restore button of confirmAndRestore does with the auto-backup
RestoreOf(file, weightStored, waistStored) ==
    RestoreFrom(readAutoBackupFile(file), "Restore Failed",
                Alert("Invalid Backup", "The backup file appears to be corrupted.", <<>>),
                Alert("Restore Successful", "Restored weight entries and waist measurements.", <<>>),
                weightStored, waistStored)

\* The alerts are modal: a button is pressed when no alert is showing.
handleImport(file) ==
    /\ result = NoCall
    /\ LET done == ImportOf(file, weightEntries, waistEntries)
       IN  /\ weightEntries' = done.weightEntries
           /\ waistEntries' = done.waistEntries
           /\ result' = [op |-> "handleImport", file |-> file, alert |-> done.alert,
                         calls |-> done.calls,
                         weightBefore |-> weightEntries, waistBefore |-> waistEntries]
    /\ UNCHANGED <<currentWeekStart, now, autoBackup, hookVars>>

confirmAndRestore(file) ==
    /\ result = NoCall
    /\ LET done == RestoreOf(file, weightEntries, waistEntries)
       IN  /\ weightEntries' = done.weightEntries
           /\ waistEntries' = done.waistEntries
           /\ result' = [op |-> "confirmAndRestore", file |-> file, alert |-> done.alert,
                         calls |-> done.calls,
                         weightBefore |-> weightEntries, waistBefore |-> waistEntries]
    /\ UNCHANGED <<currentWeekStart, now, autoBackup, hookVars>>

(***************************************************************************)
(* The files handed to import and restore                                  *)
(***************************************************************************)

BackupTime == CHOOSE today \in Todays : TRUE

\* an entry as exportAllData writes it
GoodWeight ==
    [t |-> "object", id |-> JString(<<"weight", BackupTime, 1>>),
     date |-> JString(Str(2024, 5, 27)), weight |-> JNumber(780), notes |-> Undefined,
     createdAt |-> JTime(BackupTime), updatedAt |-> JTime(BackupTime)]

GoodWaist ==
    [t |-> "object", id |-> JString(<<"waist", BackupTime, 1>>),
     date |-> JString(Str(2024, 5, 27)), measurement |-> JNumber(900), notes |-> Undefined,
     createdAt |-> JTime(BackupTime), updatedAt |-> JTime(BackupTime)]

\* the values a damaged or hand-written file has for a text field, for the
\* measured value and for a timestamp
TextDefects == {Undefined, JString(<<>>)}

ValueDefects == {Undefined, JsonNull, JString(<<"8", "0">>), JNumber(0), JNumber(-5)}

TimeDefects == {Undefined, JTime(Epoch)}

\* the entries of a file: null, or an entry with one field other than written
WeightVariants ==
    {JsonNull}
        \cup {[GoodWeight EXCEPT !.id = x] : x \in TextDefects}
        \cup {[GoodWeight EXCEPT !.date = x] : x \in TextDefects}
        \cup {[GoodWeight EXCEPT !.weight = x] : x \in ValueDefects}
        \cup {[GoodWeight EXCEPT !.createdAt = x] : x \in TimeDefects}
        \cup {[GoodWeight EXCEPT !.updatedAt = x] : x \in TimeDefects}

WaistVariants ==
    {JsonNull}
        \cup {[GoodWaist EXCEPT !.id = x] : x \in TextDefects}
        \cup {[GoodWaist EXCEPT !.date = x] : x \in TextDefects}
        \cup {[GoodWaist EXCEPT !.measurement = x] : x \in ValueDefects}
        \cup {[GoodWaist EXCEPT !.createdAt = x] : x \in TimeDefects}
        \cup {[GoodWaist EXCEPT !.updatedAt = x] : x \in TimeDefects}

\* the arrays of a file: good entries, and one variant alone, after or
\* before a good entry
EntryLists(good, variants) ==
    {<<>>, <<good>>, <<good, good>>}
        \cup {<<e>> : e \in variants}
        \cup {<<good, e>> : e \in variants}
        \cup {<<e, good>> : e \in variants}

BackupObject(version, weights, waists) ==
    [t |-> "object", version |-> version,
     exportDate |-> JString(<<"2", "0", "2", "4">>),
     weightEntries |-> weights, waistEntries |-> waists]

JsonFile(data) == [picked |-> TRUE, syntax |-> TRUE, data |-> data]

\* a file that is not JSON, the file null, files without version or without
\* an array, and files of the format with the arrays above
BackupFiles ==
    {[picked |-> TRUE, syntax |-> FALSE], JsonFile(JsonNull)}
        \cup {JsonFile(BackupObject(version, weights, waists)) :
                 version \in {Undefined, JString(<<>>), JString(<<"1", ".", "0">>)},
                 weights \in {Undefined, JArray(<<GoodWeight>>)},
                 waists \in {Undefined, JString(<<>>), JArray(<<GoodWaist>>)}}
        \cup {JsonFile(BackupObject(JString(<<"1", ".", "0">>), JArray(weights), JArray(waists))) :
                 weights \in EntryLists(GoodWeight, WeightVariants),
                 waists \in {<<>>, <<GoodWaist>>}}
        \cup {JsonFile(BackupObject(JString(<<"1", ".", "0">>), JArray(weights), JArray(waists))) :
                 weights \in {<<>>, <<GoodWeight>>},
                 waists \in EntryLists(GoodWaist, WaistVariants)}

\* the picker dismissed
Canceled == [picked |-> FALSE]

\* the alert of the handler dismissed
dismissAlert ==
    /\ result.op \in {"handleImport", "confirmAndRestore"}
    /\ result' = NoCall
    /\ UNCHANGED <<weightEntries, waistEntries, currentWeekStart, now, autoBackup, hookVars>>

NextImport ==
    \/ saveWeightEntry(Str(2024, 6, 2), 800, NoNotes)
    \/ saveWaistEntry(Str(2024, 6, 2), 920, NoNotes)
    \/ \E file \in BackupFiles \cup {Canceled} : handleImport(file)
    \/ \E file \in BackupFiles : confirmAndRestore(file)
    \/ dismissAlert

SpecImport == Init /\ [][NextImport]_vars

(***************************************************************************)
(* Import and restore when calls of AsyncStorage fail                      *)
(***************************************************************************)

\* which of multiRemove, setItem of the weight entries and setItem of the
\* waist entries succeed; a call that fails has written nothing
StorageOutcomes == [clear : BOOLEAN, weight : BOOLEAN, waist : BOOLEAN]

\* clearAllData then importAllData: the first call that fails throws, the
\* catch block of the handler shows the message, the calls after it are not
\* made
UnderFaults(done, failedTitle, weightStored, waistStored, ok) ==
    IF done.calls = <<>> THEN done
    ELSE IF ~ok.clear
    THEN [weightEntries |-> weightStored, waistEntries |-> waistStored,
          alert |-> Alert(failedTitle, "Failed to clear all data", <<>>),
          calls |-> <<"clearAllData">>]
    ELSE IF ~ok.weight
    THEN [weightEntries |-> <<>>, waistEntries |-> <<>>,
          alert |-> Alert(failedTitle, "Failed to import data", <<>>),
          calls |-> done.calls]
    ELSE IF ~ok.waist
    THEN [weightEntries |-> done.weightEntries, waistEntries |-> <<>>,
          alert |-> Alert(failedTitle, "Failed to import data", <<>>),
          calls |-> done.calls]
    ELSE done

importUnderFaults(file, ok) ==
    /\ result = NoCall
    /\ LET done == UnderFaults(ImportOf(file, weightEntries, waistEntries), "Import Failed",
                               weightEntries, waistEntries, ok)
       IN  /\ weightEntries' = done.weightEntries
           /\ waistEntries' = done.waistEntries
           /\ result' = [op |-> "handleImport", file |-> file, alert |-> done.alert,
                         calls |-> done.calls, ok |-> ok,
                         weightBefore |-> weightEntries, waistBefore |-> waistEntries]
    /\ UNCHANGED <<currentWeekStart, now, autoBackup, hookVars>>

restoreUnderFaults(file, ok) ==
    /\ result = NoCall
    /\ LET done == UnderFaults(RestoreOf(file, weightEntries, waistEntries), "Restore Failed",
                               weightEntries, waistEntries, ok)
       IN  /\ weightEntries' = done.weightEntries
           /\ waistEntries' = done.waistEntries
           /\ result' = [op |-> "confirmAndRestore", file |-> file, alert |-> done.alert,
                         calls |-> done.calls, ok |-> ok,
                         weightBefore |-> weightEntries, waistBefore |-> waistEntries]
    /\ UNCHANGED <<currentWeekStart, now, autoBackup, hookVars>>

NextImportFaults ==
    \/ saveWeightEntry(Str(2024, 6, 2), 800, NoNotes)
    \/ saveWaistEntry(Str(2024, 6, 2), 920, NoNotes)
    \/ \E file \in BackupFiles \cup {Canceled}, ok \in StorageOutcomes : importUnderFaults(file, ok)
    \/ \E file \in BackupFiles, ok \in StorageOutcomes : restoreUnderFaults(file, ok)
    \/ dismissAlert

SpecImportFaults == Init /\ [][NextImportFaults]_vars

(***************************************************************************)
(* Export and auto-backup.  A file of the auto-backups directory is named  *)
(* by the date in its name, auto-backup-<date>.json; the device is five    *)
(* hours behind UTC.                                                       *)
(***************************************************************************)

\* Date.prototype.getTimezoneOffset(), in minutes
TimezoneOffset == 300

\* new Date().toISOString().split('T')[0]: the UTC calendar date of a moment
toISOStringDate(date) ==
    LET utc == date.ms + TimezoneOffset * 60000
    IN  toISODateString([day |-> date.day + (utc \div 86400000), ms |-> utc % 86400000])

\* the collation order of the characters of a date string
CharRank(c) == IF c = "-" THEN 0 ELSE DigitVal(c) + 1

\* a.localeCompare(b): negative, 0 or positive
RECURSIVE localeCompare(_, _)
localeCompare(a, b) ==
    IF a = <<>> THEN (IF b = <<>> THEN 0 ELSE -1)
    ELSE IF b = <<>> THEN 1
    ELSE IF CharRank(Head(a)) < CharRank(Head(b)) THEN -1
    ELSE IF CharRank(Head(a)) > CharRank(Head(b)) THEN 1
    ELSE localeCompare(Tail(a), Tail(b))

\* Stable insertion of e into an array sorted by date string.
RECURSIVE InsertByDateString(_, _)
InsertByDateString(sorted, e) ==
    IF sorted = <<>> THEN <<e>>
    ELSE IF localeCompare(sorted[Len(sorted)].date, e.date) <= 0
         THEN Append(sorted, e)
         ELSE Append(InsertByDateString(SubSeq(sorted, 1, Len(sorted) - 1), e),
                     sorted[Len(sorted)])

\* A plausible slip: the entries written in the order stored.
SortByDateString_Unsorted(entries) == entries

\* [...entries].sort((a, b) => a.date.localeCompare(b.date))
RECURSIVE SortByDateString(_)
SortByDateString(entries) ==
    IF entries = <<>> THEN <<>>
    ELSE InsertByDateString(SortByDateString(SubSeq(entries, 1, Len(entries) - 1)),
                            entries[Len(entries)])

\* the backupData of exportAllData and of createAutoBackup
BackupDataOf(weightStored, waistStored, at) ==
    [version |-> <<"1", ".", "0">>,
     exportDate |-> at,
     weightEntries |-> SortByDateString(weightStored),
     waistEntries |-> SortByDateString(waistStored)]

\* the backups createAutoBackup keeps
KeepCount == 7

\* A plausible slip: the files sorted oldest first.
cleanupOldBackups_KeepsOldest(files, keepCount) ==
    {f \in files : Cardinality({g \in files : localeCompare(g, f) < 0}) < keepCount}

\* cleanupOldBackups(directory, keepCount): the files sorted newest first by
\* name, those from index keepCount on deleted
cleanupOldBackups(files, keepCount) ==
    {f \in files : Cardinality({g \in files : localeCompare(g, f) > 0}) < keepCount}

\* the auto-backup state after createAutoBackup() at the moment at
AfterAutoBackup(backup, at) ==
    LET date == toISOStringDate(at)
    IN  [backup EXCEPT !.files = cleanupOldBackups(@ \cup {date}, KeepCount),
                       !.lastBackupDate = Item(date)]

\* A plausible slip: backups made unless the flag is stored as 'false'.
isAutoBackupEnabled_DefaultOn(backup, ok) == ~ok \/ backup.enabled # Item("false")

\* isAutoBackupEnabled(): the stored flag is 'true'; false when the read fails
isAutoBackupEnabled(backup, ok) == ok /\ backup.enabled = Item("true")

\* shouldCreateAutoBackup(): never backed up, or not on the date of at
shouldCreateAutoBackup(backup, at) == backup.lastBackupDate # Item(toISOStringDate(at))

\* the moments the app is used at: 10:30 and 20:30 of two days
BackupMoments ==
    {[day |-> BackupTime.day + k, ms |-> t] : k \in {0, 1}, t \in {37800000, 73800000}}

\* the Auto-Backup switch of the settings screen
handleToggleAutoBackup(value) ==
    /\ autoBackup' = [autoBackup EXCEPT !.enabled = Item(IF value THEN "true" ELSE "false")]
    /\ result' = [op |-> "handleToggleAutoBackup",
                  alert |-> IF value
                            THEN Alert("Auto-Backup Enabled",
                                       "Your data will be backed up automatically once per day when you open the app.",
                                       <<>>)
                            ELSE Null]
    /\ UNCHANGED <<weightEntries, waistEntries, currentWeekStart, now, hookVars>>

\* the body of the effect of useAutoBackup: nothing when the ref is set,
\* else the ref set and the timer of the check started
EffectRun(l) ==
    IF l.hasChecked THEN [l EXCEPT !.mounted = TRUE, !.cleanup = FALSE]
    ELSE [l EXCEPT !.mounted = TRUE, !.hasChecked = TRUE, !.cleanup = TRUE, !.timers = @ + 1]

\* the app started: a new instance of the hook is mounted and its effect
\* runs; the timers of an instance that ran before are gone with it
launchApp ==
    /\ result = NoCall
    /\ launch' = EffectRun([NoLaunch EXCEPT !.running = TRUE])
    /\ UNCHANGED <<weightEntries, waistEntries, currentWeekStart, now, autoBackup, result, pending, screenVars>>

\* React unmounts the component (also the simulated unmount of strict
\* mode): the cleanup the effect returned clears its timer
effectCleanup ==
    /\ launch.mounted
    /\ launch' = [launch EXCEPT !.mounted = FALSE, !.cleanup = FALSE,
                                !.timers = IF launch.cleanup THEN 0 ELSE @]
    /\ UNCHANGED <<weightEntries, waistEntries, currentWeekStart, now, autoBackup, result, pending, screenVars>>

\* React runs the effect again on the same instance, the ref kept
effectRerun ==
    /\ launch.running
    /\ ~launch.mounted
    /\ launch' = EffectRun(launch)
    /\ UNCHANGED <<weightEntries, waistEntries, currentWeekStart, now, autoBackup, result, pending, screenVars>>

\* useAutoBackup: the check of an app launch, run when its timer fires; ok
\* tells whether the flag could be read.  The test of shouldCreateAutoBackup
\* is commented out in the hook.
performAutoBackupCheck(ok) ==
    /\ result = NoCall
    /\ launch.timers > 0
    /\ launch' = [launch EXCEPT !.timers = @ - 1, !.checks = @ + 1]
    /\ LET enabled == isAutoBackupEnabled(autoBackup, ok)
       IN  /\ autoBackup' = IF enabled THEN AfterAutoBackup(autoBackup, now) ELSE autoBackup
           /\ result' = [op |-> "performAutoBackupCheck",
                         today |-> toISOStringDate(now),
                         before |-> autoBackup,
                         readable |-> ok,
                         created |-> enabled,
                         backupData |-> IF enabled
                                        THEN BackupDataOf(weightEntries, waistEntries, now)
                                        ELSE Null,
                         stored |-> <<weightEntries, waistEntries>>]
    /\ UNCHANGED <<weightEntries, waistEntries, currentWeekStart, now, pending, screenVars>>

\* exportAllData(): the backup object written to the file that is shared
exportAllData ==
    /\ result = NoCall
    /\ result' = [op |-> "exportAllData",
                  today |-> toISOStringDate(now),
                  backupData |-> BackupDataOf(weightEntries, waistEntries, now),
                  stored |-> <<weightEntries, waistEntries>>]
    /\ UNCHANGED <<weightEntries, waistEntries, currentWeekStart, now, autoBackup, hookVars>>

\* the evening of the day: 20:30, the next day in UTC
laterToday ==
    /\ now.ms = 37800000
    /\ [now EXCEPT !.ms = 73800000] \in BackupMoments
    /\ now' = [now EXCEPT !.ms = 73800000]
    /\ result' = NoCall
    /\ UNCHANGED <<weightEntries, waistEntries, currentWeekStart, autoBackup, hookVars>>

\* 10:30 of the next day
nextDay ==
    /\ [day |-> now.day + 1, ms |-> 37800000] \in BackupMoments
    /\ now' = [day |-> now.day + 1, ms |-> 37800000]
    /\ result' = NoCall
    /\ UNCHANGED <<weightEntries, waistEntries, currentWeekStart, autoBackup, hookVars>>

\* the dates logged while backups are made: a Sunday and the Monday before
BackupEntryDates == {Str(2024, 6, 2), Str(2024, 5, 27)}

NextBackup ==
    \/ \E d \in BackupEntryDates : saveWeightEntry(d, 780, NoNotes)
    \/ \E d \in BackupEntryDates : saveWaistEntry(d, 900, NoNotes)
    \/ \E value \in BOOLEAN : handleToggleAutoBackup(value)
    \/ launchApp
    \/ \E ok \in BOOLEAN : performAutoBackupCheck(ok)
    \/ exportAllData
    \/ laterToday
    \/ nextDay

SpecBackup == Init /\ [][NextBackup]_vars

(***************************************************************************)
(* The exported file imported again                                        *)
(***************************************************************************)

\* A plausible slip: the notes left out of the file.
JsonOfWeight_WithoutNotes(e) ==
    [t |-> "object", id |-> JString(e.id), date |-> JString(e.date),
     weight |-> JNumber(e.weight), notes |-> Undefined,
     createdAt |-> JTime(e.createdAt), updatedAt |-> JTime(e.updatedAt)]

\* JSON.parse(JSON.stringify(entry)): a property that is undefined is not
\* written
JsonOfWeight(e) ==
    [t |-> "object", id |-> JString(e.id), date |-> JString(e.date),
     weight |-> JNumber(e.weight),
     notes |-> IF e.notes = NoNotes THEN Undefined ELSE JString(e.notes),
     createdAt |-> JTime(e.createdAt), updatedAt |-> JTime(e.updatedAt)]

JsonOfWaist(e) ==
    [t |-> "object", id |-> JString(e.id), date |-> JString(e.date),
     measurement |-> JNumber(e.measurement),
     notes |-> IF e.notes = NoNotes THEN Undefined ELSE JString(e.notes),
     createdAt |-> JTime(e.createdAt), updatedAt |-> JTime(e.updatedAt)]

\* the file exportAllData writes, JSON.stringify(backupData, null, 2), as the
\* picker hands it to the import
ExportedFile(backupData) ==
    JsonFile([t |-> "object", version |-> JString(backupData.version),
              exportDate |-> JString(backupData.exportDate),
              weightEntries |-> JArray([i \in 1..Len(backupData.weightEntries) |->
                                           JsonOfWeight(backupData.weightEntries[i])]),
              waistEntries |-> JArray([i \in 1..Len(backupData.waistEntries) |->
                                          JsonOfWaist(backupData.waistEntries[i])])])

\* entries.filter((e) => e.id !== id), written to the weight collection
deleteWeightEntry(id) ==
    /\ weightEntries' = WaistEntriesAfterDelete(weightEntries, id)
    /\ result' = NoCall
    /\ UNCHANGED <<waistEntries, currentWeekStart, now, autoBackup, hookVars>>

\* handleImport with the file of the export just made picked
importExported ==
    /\ result.op = "exportAllData"
    /\ LET file == ExportedFile(result.backupData)
           done == ImportOf(file, weightEntries, waistEntries)
       IN  /\ weightEntries' = done.weightEntries
           /\ waistEntries' = done.waistEntries
           /\ result' = [op |-> "handleImport", file |-> file, alert |-> done.alert,
                         calls |-> done.calls, exported |-> result.backupData,
                         weightBefore |-> weightEntries, waistBefore |-> waistEntries]
    /\ UNCHANGED <<currentWeekStart, now, autoBackup, hookVars>>

IdsStored(entries) == {entries[i].id : i \in 1..Len(entries)}

\* what is logged before an export
RoundTripSaves ==
    {[date |-> Str(2024, 6, 2), value |-> 780, notes |-> NoNotes],
     [date |-> Str(2024, 5, 27), value |-> 800, notes |-> "after run"]}

NextRoundTrip ==
    \/ \E e \in RoundTripSaves : saveWeightEntry(e.date, e.value, e.notes)
    \/ saveWaistEntry(Str(2024, 6, 2), 900, "after run")
    \/ \E id \in IdsStored(weightEntries) : updateWeightEntry(id, [weight |-> 790, date |-> Str(2024, 6, 3)])
    \/ \E id \in IdsStored(waistEntries) : updateWaistEntry(id, [measurement |-> 920])
    \/ \E id \in IdsStored(weightEntries) : deleteWeightEntry(id)
    \/ exportAllData
    \/ importExported
    \/ dismissResult

SpecRoundTrip == Init /\ [][NextRoundTrip]_vars

\* the hook of a launch step by step: the effect run, cleaned up and run
\* again, the timer firing, while the switch is turned and a day passes
NextLaunch ==
    \/ saveWeightEntry(Str(2024, 6, 2), 780, NoNotes)
    \/ \E value \in BOOLEAN : handleToggleAutoBackup(value)
    \/ launchApp
    \/ effectCleanup
    \/ effectRerun
    \/ \E ok \in BOOLEAN : performAutoBackupCheck(ok)
    \/ nextDay

SpecLaunch == Init /\ [][NextLaunch]_vars

\* the app is launched on this many different days
MaxBackupDays == 9

\* the clock of the device shows 10:30 of a day of use: a day passed, or the
\* clock was set
setClock(k) ==
    /\ now' = [day |-> BackupTime.day + k, ms |-> 37800000]
    /\ result' = NoCall
    /\ UNCHANGED <<weightEntries, waistEntries, currentWeekStart, autoBackup, hookVars>>

\* launches with auto-backup switched on, over more days than backups kept
NextRetention ==
    \/ handleToggleAutoBackup(TRUE)
    \/ launchApp
    \/ \E ok \in BOOLEAN : performAutoBackupCheck(ok)
    \/ \E k \in 0..(MaxBackupDays - 1) : setClock(k)

SpecRetention == Init /\ [][NextRetention]_vars

(***************************************************************************)
(* Vocabulary of the properties.  Days are counted independently of the    *)
(* Date methods: 2001-01-01 was a Monday.                                  *)
(***************************************************************************)

DayOf(dateString) == parseISODate(dateString).day

\* 0 = Monday, ..., 6 = Sunday
WeekdayIndex(day) == (day - DaysFromCivil(2001, 1, 1)) % 7

MondayOfDay(day) == day - WeekdayIndex(day)

IsStats == result.op = "getWeeklyStats"

Stats == result.stats

PeriodWeeks == [p \in ComparisonPeriods |-> CASE p = "1w" -> 1 [] p = "2w" -> 2 [] p = "4w" -> 4]

\* the indices of the entries dated from day lo to day hi
IdxInDays(entries, lo, hi) ==
    {i \in 1..Len(entries) : DayOf(entries[i].date) \in lo..hi}

\* the entries from the day written in weekStart to the Sunday of its week;
\* for a Monday this is the whole week
WindowIdx(entries, weekStart) ==
    IdxInDays(entries, DayOf(weekStart), MondayOfDay(DayOf(weekStart)) + 6)

\* the entries of the Monday-to-Sunday week containing day
WeekIdx(entries, day) == IdxInDays(entries, MondayOfDay(day), MondayOfDay(day) + 6)

\* the entries of the week n weeks before the week of weekStart
WeeksBeforeIdx(entries, weekStart, n) == WeekIdx(entries, DayOf(weekStart) - 7 * n)

\* the entries of the week of the earliest entry
EarliestWeekIdx(entries) ==
    IF entries = <<>> THEN {}
    ELSE LET i == CHOOSE i \in 1..Len(entries) :
                      \A j \in 1..Len(entries) : DayOf(entries[i].date) <= DayOf(entries[j].date)
         IN  WeekIdx(entries, DayOf(entries[i].date))

\* the week the comparison resolves to: the requested one, or the earliest
BaselineIdx(entries, weekStart, n) ==
    IF WeeksBeforeIdx(entries, weekStart, n) # {}
    THEN WeeksBeforeIdx(entries, weekStart, n)
    ELSE EarliestWeekIdx(entries)

RECURSIVE SumWeights(_, _)
SumWeights(entries, idx) ==
    IF idx = {} THEN 0
    ELSE LET i == CHOOSE i \in idx : TRUE
         IN  entries[i].weight + SumWeights(entries, idx \ {i})

\* avg is the arithmetic mean of the weights at idx, null for no entry
IsMeanOf(avg, entries, idx) ==
    IF idx = {} THEN avg = Null
    ELSE /\ avg # Null
         /\ avg.den > 0
         /\ avg.num * Cardinality(idx) = SumWeights(entries, idx) * avg.den

\* m is the measurement of an entry at idx no other entry at idx is dated after
IsLatestOf(m, entries, idx) ==
    IF idx = {} THEN m = Null
    ELSE /\ m # Null
         /\ m.den = 1
         /\ \E i \in idx :
                /\ entries[i].measurement = m.num
                /\ \A j \in idx : DayOf(entries[j].date) <= DayOf(entries[i].date)

\* c is a - b, null as soon as a or b is null
IsDifference(c, a, b) ==
    IF a = Null \/ b = Null THEN c = Null
    ELSE /\ c # Null
         /\ c.den > 0
         /\ c.num * a.den * b.den = (a.num * b.den - b.num * a.den) * c.den

(***************************************************************************)
(* Properties                                                              *)
(***************************************************************************)

\* C1: getWeeklyStats(W, p) counts the weight entries of the week of W, and
\* returns their arithmetic mean, their smallest and their largest weight;
\* entries sharing a date count individually.
C1_WeekAggregates ==
    IsStats =>
        LET idx == WindowIdx(weightEntries, Stats.weekStart)
        IN  /\ Stats.weightCount = Cardinality(idx)
            /\ IsMeanOf(Stats.weightAverage, weightEntries, idx)
            /\ idx # {} =>
                /\ Stats.weightMin # Null /\ Stats.weightMin.den = 1
                /\ Stats.weightMax # Null /\ Stats.weightMax.den = 1
                /\ \E i \in idx : weightEntries[i].weight = Stats.weightMin.num
                /\ \E i \in idx : weightEntries[i].weight = Stats.weightMax.num
                /\ \A i \in idx : /\ Stats.weightMin.num <= weightEntries[i].weight
                                  /\ weightEntries[i].weight <= Stats.weightMax.num

\* two entries of one date and of different weights in the week of a Monday,
\* and an entry outside it
C1_Witness ==
    /\ IsStats
    /\ WeekdayIndex(DayOf(Stats.weekStart)) = 0
    /\ LET idx == WindowIdx(weightEntries, Stats.weekStart)
       IN  /\ \E i, j \in idx : /\ i # j
                                /\ weightEntries[i].date = weightEntries[j].date
                                /\ weightEntries[i].weight # weightEntries[j].weight
           /\ \E k \in 1..Len(weightEntries) : k \notin idx
    /\ Stats.weightCount = 2

\* C2: when the week N weeks before the target week has no weight entry and
\* the collection is not empty, comparisonPeriodAverage is the mean of the
\* week of the earliest weight entry.
C2_FallbackLaw ==
    IsStats =>
        ((/\ WeeksBeforeIdx(weightEntries, Stats.weekStart, PeriodWeeks[result.period]) = {}
          /\ Len(weightEntries) > 0)
         => IsMeanOf(Stats.comparisonPeriodAverage, weightEntries,
                     EarliestWeekIdx(weightEntries)))

\* the fallback with the earliest entry stored last and entries of another week
C2_Witness ==
    /\ IsStats
    /\ WeeksBeforeIdx(weightEntries, Stats.weekStart, PeriodWeeks[result.period]) = {}
    /\ Len(weightEntries) >= 2
    /\ Len(weightEntries) \in EarliestWeekIdx(weightEntries)
    /\ 1 \notin EarliestWeekIdx(weightEntries)
    /\ weightEntries[1].weight # weightEntries[Len(weightEntries)].weight
    /\ Stats.comparisonPeriodAverage # Null

\* C3: when the week 7*N days before the target week has a weight entry,
\* comparisonPeriodAverage is the mean of exactly that week's entries.
C3_ComparisonWeek ==
    IsStats =>
        LET idx == WeeksBeforeIdx(weightEntries, Stats.weekStart, PeriodWeeks[result.period])
        IN  idx # {} => IsMeanOf(Stats.comparisonPeriodAverage, weightEntries, idx)

\* four weeks back there are entries, and an earlier entry of another weight
C3_Witness ==
    /\ IsStats
    /\ result.period = "4w"
    /\ LET idx == WeeksBeforeIdx(weightEntries, Stats.weekStart, 4)
       IN  /\ idx # {}
           /\ \E k \in EarliestWeekIdx(weightEntries) :
                  /\ k \notin idx
                  /\ \A i \in idx : weightEntries[i].weight # weightEntries[k].weight

\* C4: weekOverWeekChange and comparisonPeriodChange are null when an operand
\* is null, and the difference of the operands otherwise.
C4_ChangesPropagateNull ==
    IsStats =>
        /\ IsDifference(Stats.weekOverWeekChange,
                        Stats.weightAverage, Stats.previousWeekAverage)
        /\ IsDifference(Stats.comparisonPeriodChange,
                        Stats.weightAverage, Stats.comparisonPeriodAverage)

\* a week with an average and no previous week, compared with an earlier week
C4_Witness ==
    /\ IsStats
    /\ Stats.weightAverage # Null
    /\ Stats.previousWeekAverage = Null
    /\ Stats.comparisonPeriodChange # Null
    /\ Stats.comparisonPeriodChange.num # 0

\* C5: a target week without weight entries yields a record with
\* weightCount = 0 and null average, minimum, maximum and changes.
C5_EmptyWeek ==
    (IsStats /\ WindowIdx(weightEntries, Stats.weekStart) = {}) =>
        /\ Stats.weightCount = 0
        /\ Stats.weightAverage = Null
        /\ Stats.weightMin = Null
        /\ Stats.weightMax = Null
        /\ Stats.weekOverWeekChange = Null
        /\ Stats.comparisonPeriodChange = Null

\* an empty week after a week with entries
C5_Witness ==
    /\ IsStats
    /\ WeekIdx(weightEntries, DayOf(Stats.weekStart)) = {}
    /\ Stats.previousWeekAverage # Null
    /\ Stats.comparisonPeriodAverage # Null

\* C6: the three waist values are the measurement of the latest entry of
\* their week, null for a week without waist entry, and the two waist changes
\* are the null-propagating differences.
C6_WaistLatest ==
    IsStats =>
        /\ IsLatestOf(Stats.currentWeekWaist, waistEntries,
                      WindowIdx(waistEntries, Stats.weekStart))
        /\ IsLatestOf(Stats.previousWeekWaist, waistEntries,
                      WeeksBeforeIdx(waistEntries, Stats.weekStart, 1))
        /\ IsLatestOf(Stats.comparisonPeriodWaist, waistEntries,
                      BaselineIdx(waistEntries, Stats.weekStart, PeriodWeeks[result.period]))
        /\ IsDifference(Stats.waistWeekOverWeekChange,
                        Stats.currentWeekWaist, Stats.previousWeekWaist)
        /\ IsDifference(Stats.comparisonWaistChange,
                        Stats.currentWeekWaist, Stats.comparisonPeriodWaist)

\* two waist entries in the week, the later one stored first
C6_Witness ==
    /\ IsStats
    /\ LET idx == WindowIdx(waistEntries, Stats.weekStart)
       IN  \E i, j \in idx :
               /\ i < j
               /\ DayOf(waistEntries[i].date) > DayOf(waistEntries[j].date)
               /\ waistEntries[i].measurement # waistEntries[j].measurement
               /\ Stats.currentWeekWaist = Frac(waistEntries[i].measurement, 1)
    /\ Stats.comparisonWaistChange # Null

\* the weight collections the stored one is exchanged for
AltWeightStores ==
    {<<>>,
     <<[date |-> Str(2024, 6, 2), weight |-> 780], [date |-> Str(2024, 5, 1), weight |-> 780],
       [date |-> Str(2024, 5, 27), weight |-> 800]>>}

\* C7: comparisonPeriodWaist and comparisonWaistChange do not depend on the
\* weight collection; the waist baseline is the requested comparison week
\* unless that week has no waist entry, and then the week of the earliest
\* waist entry.
C7_WaistBaselineIndependent ==
    IsStats =>
        /\ \A alt \in AltWeightStores :
               LET other == getWeeklyStats(alt, waistEntries, Stats.weekStart, result.period)
               IN  /\ other.comparisonPeriodWaist = Stats.comparisonPeriodWaist
                   /\ other.comparisonWaistChange = Stats.comparisonWaistChange
        /\ LET requested == WeeksBeforeIdx(waistEntries, Stats.weekStart,
                                           PeriodWeeks[result.period])
           IN  IsLatestOf(Stats.comparisonPeriodWaist, waistEntries,
                          IF requested = {} THEN EarliestWeekIdx(waistEntries) ELSE requested)

\* the weight comparison week has entries, the waist one has none
C7_Witness ==
    /\ IsStats
    /\ WeeksBeforeIdx(weightEntries, Stats.weekStart, PeriodWeeks[result.period]) # {}
    /\ WeeksBeforeIdx(waistEntries, Stats.weekStart, PeriodWeeks[result.period]) = {}
    /\ Stats.comparisonPeriodWaist # Null

\* C8: getWeekStart(d) is the Monday on or before d, at most six days before
\* it, and getWeekEnd(d) is the Sunday six days after getWeekStart(d).
C8_WeekBounds ==
    result.op = "weekOf" =>
        /\ WeekdayIndex(result.weekStart.day) = 0
        /\ DateLE(result.weekStart, result.date)
        /\ result.date.day - result.weekStart.day \in 0..6
        /\ WeekdayIndex(result.date.day) = 6 => result.weekStart.day = result.date.day - 6
        /\ WeekdayIndex(result.date.day) = 0 => result.weekStart.day = result.date.day
        /\ WeekdayIndex(result.weekEnd.day) = 6
        /\ result.weekEnd.day = result.weekStart.day + 6
        /\ result.weekStart.ms = 0
        /\ result.weekEnd.ms = 86399999

\* a Sunday whose week began in the month before
C8_Witness ==
    /\ result.op = "weekOf"
    /\ WeekdayIndex(result.date.day) = 6
    /\ CivilFromDays(result.weekStart.day).m # CivilFromDays(result.date.day).m

\* C9: in every record of getWeeklyStats, weekStart is a Monday and weekEnd
\* is the date six days after it.
C9_RecordWeekStartIsMonday ==
    IsStats =>
        /\ WeekdayIndex(DayOf(Stats.weekStart)) = 0
        /\ DayOf(Stats.weekEnd) = DayOf(Stats.weekStart) + 6

\* result is exactly the entries of stored at idx, by non-decreasing date
IsWindowByDate(found, stored, idx) ==
    /\ Len(found) = Cardinality(idx)
    /\ {found[i] : i \in 1..Len(found)} = {stored[i] : i \in idx}
    /\ \A i, j \in 1..Len(found) : i < j => DayOf(found[i].date) <= DayOf(found[j].date)

\* C10: getWeightEntriesForWeek(W) and getWaistEntriesForWeek(W) return
\* exactly the stored entries dated from W to the Sunday of the week of W,
\* by non-decreasing date.
C10_EntriesForWeek ==
    result.op = "getEntriesForWeek" =>
        /\ IsWindowByDate(result.weekEntries, weightEntries,
                          WindowIdx(weightEntries, result.weekStart))
        /\ IsWindowByDate(result.waistEntries, waistEntries,
                          WindowIdx(waistEntries, result.weekStart))

\* the Sunday entry stored before the Monday entry, and an entry outside
C10_Witness ==
    /\ result.op = "getEntriesForWeek"
    /\ WeekdayIndex(DayOf(result.weekStart)) = 0
    /\ Len(result.weekEntries) = 2
    /\ Len(weightEntries) = 3
    /\ \E i, j \in 1..3 : /\ i < j
                          /\ weightEntries[i] = result.weekEntries[2]
                          /\ weightEntries[j] = result.weekEntries[1]
                          /\ weightEntries[i].date = Str(2024, 6, 2)
                          /\ weightEntries[j].date = Str(2024, 5, 27)

\* the hook holds the record of a load and of the load repeated after it
IsRepeatedLoad == result.op = "loadStats" /\ result.previous # Null

\* C11: two successive calls of getWeeklyStats with the same week start and
\* comparison period and no mutation of the store between them return the
\* same record, and the collections are as stored before the first call.
C11_Idempotent ==
    IsRepeatedLoad =>
        /\ result.stats = result.previous.stats
        /\ <<weightEntries, waistEntries>> = result.previous.stored

\* the date string is ten characters, digits around two hyphens
IsWellFormed(dateString) ==
    /\ Len(dateString) = 10
    /\ dateString[5] = "-" /\ dateString[8] = "-"
    /\ \A i \in {1, 2, 3, 4, 6, 7, 9, 10} : dateString[i] \in {DigitChar[k] : k \in 1..10}

C13_OneWaistEntryPerDate ==
    \A i, j \in 1..Len(waistEntries) :
        i # j => waistEntries[i].date # waistEntries[j].date

\* the entries of the date saved, in the collection before the call
SavedOver == {i \in 1..Len(result.before) : result.before[i].date = result.date}

\* C14: saveWaistEntry for a date that has an entry replaces the measurement,
\* the notes and updatedAt of one entry of that date, keeps its id, date and
\* createdAt, every other entry and the number of entries; for a date
\* without entry it adds exactly one entry, of that date.
C14_WaistUpsert ==
    result.op = "saveWaistEntry" =>
        IF SavedOver # {}
        THEN /\ Len(waistEntries) = Len(result.before)
             /\ \E i \in SavedOver :
                    /\ waistEntries[i].measurement = result.measurement
                    /\ waistEntries[i].notes = result.notes
                    /\ waistEntries[i].updatedAt = result.at
                    /\ waistEntries[i].id = result.before[i].id
                    /\ waistEntries[i].date = result.before[i].date
                    /\ waistEntries[i].createdAt = result.before[i].createdAt
                    /\ \A j \in 1..Len(waistEntries) :
                           j # i => waistEntries[j] = result.before[j]
        ELSE /\ Len(waistEntries) = Len(result.before) + 1
             /\ SubSeq(waistEntries, 1, Len(result.before)) = result.before
             /\ waistEntries[Len(waistEntries)].date = result.date
             /\ waistEntries[Len(waistEntries)].measurement = result.measurement
             /\ waistEntries[Len(waistEntries)].notes = result.notes
             /\ \A j \in 1..Len(result.before) :
                    waistEntries[Len(waistEntries)].id # result.before[j].id

\* an entry saved over later, with another measurement and other notes,
\* beside an entry of another date
C14_Witness ==
    /\ result.op = "saveWaistEntry"
    /\ Len(result.before) = 2
    /\ \E i \in SavedOver :
           /\ result.before[i].measurement # result.measurement
           /\ result.before[i].notes # result.notes
           /\ result.before[i].updatedAt # result.at
           /\ waistEntries[i].createdAt # waistEntries[i].updatedAt

IsRestore == result.op \in {"handleImport", "confirmAndRestore"}

\* the file has the format: JSON, an object with a version and both arrays
HasFormat(file) ==
    /\ file.picked
    /\ file.syntax
    /\ file.data.t = "object"
    /\ file.data.version.t = "string" /\ file.data.version.s # <<>>
    /\ file.data.weightEntries.t = "array"
    /\ file.data.waistEntries.t = "array"

\* C15: an import or restore whose file is not valid JSON, lacks the version
\* or an entry array, or holds an entry validateBackupData rejects calls
\* neither clearAllData nor importAllData and leaves both collections as
\* they were.
C15_InvalidFileChangesNothing ==
    (IsRestore /\ result.file.picked
              /\ (HasFormat(result.file) => ~validateBackupData(result.file.data))) =>
        /\ result.calls = <<>>
        /\ weightEntries = result.weightBefore
        /\ waistEntries = result.waistBefore

\* a file of the format with a rejected entry after a good one, over stored
\* entries
C15_Witness ==
    /\ IsRestore
    /\ HasFormat(result.file)
    /\ Len(result.file.data.weightEntries.items) = 2
    /\ result.file.data.weightEntries.items[1] = GoodWeight
    /\ ~validateBackupData(result.file.data)
    /\ Len(weightEntries) > 0
    /\ Len(waistEntries) > 0

\* what the contract asks of a field, read off the value in the file
IsNonEmptyText(x) == x.t = "string" /\ x.s # <<>>

IsPositiveNumber(x) == x.t = "number" /\ "v" \in DOMAIN x /\ x.v > 0

IsPresent(x) == x.t \notin {"undefined", "null"}

MeetsContract(entry, isWeight) ==
    /\ entry.t = "object"
    /\ IsNonEmptyText(entry.id)
    /\ IsNonEmptyText(entry.date)
    /\ IsPositiveNumber(IF isWeight THEN entry.weight ELSE entry.measurement)
    /\ IsPresent(entry.createdAt)
    /\ IsPresent(entry.updatedAt)

AllMeetContract(data) ==
    /\ \A i \in 1..Len(data.weightEntries.items) :
           MeetsContract(data.weightEntries.items[i], TRUE)
    /\ \A i \in 1..Len(data.waistEntries.items) :
           MeetsContract(data.waistEntries.items[i], FALSE)

\* C16: validateBackupData(data) is true exactly when every weight and waist
\* entry has a non-empty id, a non-empty date, a number greater than 0 as
\* weight or measurement, and createdAt and updatedAt present; otherwise it
\* is false, and the handler shows the alert of an invalid file.
C16_ValidatesExactly ==
    (IsRestore /\ HasFormat(result.file)) =>
        /\ validateBackupData(result.file.data) = AllMeetContract(result.file.data)
        /\ AllMeetContract(result.file.data) =>
               result.alert.title \in {"Import Successful", "Restore Successful"}

NotJson == [picked |-> TRUE, syntax |-> FALSE]

\* JSON of the wrong shape: no version, an array missing, or an entry
\* validateBackupData rejects
WrongShape(file) ==
    /\ file.picked
    /\ file.syntax
    /\ HasFormat(file) => ~validateBackupData(file.data)

\* the alert the handler op shows for a file
AlertOf(op, file) ==
    IF op = "handleImport"
    THEN ImportOf(file, <<>>, <<>>).alert
    ELSE RestoreOf(file, <<>>, <<>>).alert

\* C17: in handleImport and in confirmAndRestore alike, the alert shown for
\* a file that is not valid JSON differs from the alert shown for every file
\* that is JSON of the wrong shape, and the other way round.
C17_DistinctFailures ==
    /\ (IsRestore /\ result.file = NotJson) =>
           /\ result.alert # Null
           /\ \A other \in BackupFiles :
                  WrongShape(other) => AlertOf(result.op, other) # result.alert
    /\ (IsRestore /\ WrongShape(result.file)) =>
           /\ result.alert # Null
           /\ result.alert # AlertOf(result.op, NotJson)

\* a file that is not JSON handed to the import, told as such
C17_Witness ==
    /\ result.op = "handleImport"
    /\ result.file = NotJson
    /\ result.alert.title = "Import Failed"
    /\ \E other \in BackupFiles :
           /\ WrongShape(other)
           /\ AlertOf("handleImport", other).title = "Import Failed"

\* C18: when a read of the weight or waist collection fails during
\* getWeeklyStats, the call fails: the hook's error is set and no WeeklyStats
\* record is returned for that call.
C18_FailedReadSurfaced ==
    (result.op = "loadStats" /\ result.failedReads > 0) =>
        /\ result.error # Null
        /\ result.stats = Null

\* C19: with auto-backup enabled, a launch on a day whose date is already
\* the last backup date executes no createAutoBackup, so that the launches
\* of one day execute it at most once.
C19_OncePerDay ==
    (result.op = "performAutoBackupCheck"
        /\ result.before.lastBackupDate = Item(result.today)) =>
        /\ ~result.created
        /\ autoBackup = result.before

HasBackupData ==
    /\ result.op \in {"exportAllData", "performAutoBackupCheck"}
    /\ result.backupData # Null

\* list holds every element of stored exactly as often as stored does
SameEntries(list, stored) ==
    /\ Len(list) = Len(stored)
    /\ \A i \in 1..Len(stored) :
           Cardinality({j \in 1..Len(list) : list[j] = stored[i]})
               = Cardinality({j \in 1..Len(stored) : stored[j] = stored[i]})

NonDecreasingByDate(list) ==
    \A i \in 1..(Len(list) - 1) : DayOf(list[i].date) <= DayOf(list[i + 1].date)

\* C20: the backup object built by exportAllData and by createAutoBackup has
\* version "1.0" and holds every stored weight entry and every stored waist
\* entry exactly once, each list in non-decreasing order of date; the stored
\* collections are not modified.
C20_BackupObject ==
    HasBackupData =>
        /\ result.backupData.version = <<"1", ".", "0">>
        /\ SameEntries(result.backupData.weightEntries, result.stored[1])
        /\ SameEntries(result.backupData.waistEntries, result.stored[2])
        /\ NonDecreasingByDate(result.backupData.weightEntries)
        /\ NonDecreasingByDate(result.backupData.waistEntries)
        /\ weightEntries = result.stored[1]
        /\ waistEntries = result.stored[2]

\* an auto-backup of a store whose weight entries were saved later date
\* first, beside a waist entry
C20_Witness ==
    /\ result.op = "performAutoBackupCheck"
    /\ result.created
    /\ Len(weightEntries) = 2
    /\ Len(waistEntries) = 1
    /\ DayOf(weightEntries[1].date) > DayOf(weightEntries[2].date)
    /\ result.backupData.weightEntries[1] = weightEntries[2]
    /\ result.backupData.weightEntries[2] = weightEntries[1]
    /\ result.backupData.waistEntries = waistEntries

IsLaunchCheck == result.op = "performAutoBackupCheck"

\* C21: when the stored flag is not 'true' (never set, 'false' or
\* unreadable) the check of a launch calls no createAutoBackup: no file is
\* written and the last backup date stays; and the check runs at most once
\* in one launch.
C21_DisabledNeverBacksUp ==
    /\ (IsLaunchCheck /\ ~(result.readable /\ result.before.enabled = Item("true"))) =>
           /\ ~result.created
           /\ result.backupData = Null
           /\ autoBackup = result.before
    /\ launch.checks <= 1

\* the check of a launch after the switch was turned off, with a backup
\* of an earlier launch in the directory
C21_Witness ==
    /\ IsLaunchCheck
    /\ result.before.enabled = Item("false")
    /\ result.before.files # {}
    /\ result.before.lastBackupDate # Item(result.today)
    /\ launch.checks = 1

\* the files of the directory once the backup of the check is written
WrittenFiles == result.before.files \cup {result.today}

\* C22: after a createAutoBackup that completes, the directory holds at most
\* 7 backup files, those with the most recent dates: a file is deleted only
\* if at least 7 files of later dates exist.
C22_Retention ==
    (IsLaunchCheck /\ result.created) =>
        /\ Cardinality(autoBackup.files) <= 7
        /\ autoBackup.files \subseteq WrittenFiles
        /\ \A f \in WrittenFiles \ autoBackup.files :
               Cardinality({g \in WrittenFiles : DayOf(g) > DayOf(f)}) >= 7
        /\ \A f \in autoBackup.files :
               Cardinality({g \in WrittenFiles : DayOf(g) > DayOf(f)}) < 7

\* a backup written beside seven others, neither the oldest nor the newest
\* of the eight
C22_Witness ==
    /\ IsLaunchCheck
    /\ result.created
    /\ Cardinality(result.before.files) = 7
    /\ result.today \notin result.before.files
    /\ result.today \in autoBackup.files
    /\ \E g \in autoBackup.files : DayOf(g) > DayOf(result.today)
    /\ Cardinality(autoBackup.files) = 7

IsUpdate == result.op \in {"updateWeightEntry", "updateWaistEntry"}

\* the collection the update was made on, as it is stored now
Updated == IF result.op = "updateWeightEntry" THEN weightEntries ELSE waistEntries

\* the other collection, as it is stored now
NotUpdated == IF result.op = "updateWeightEntry" THEN waistEntries ELSE weightEntries

Targets == {i \in 1..Len(result.before) : result.before[i].id = result.id}

\* C23: updateWeightEntry and updateWaistEntry keep the id and createdAt of
\* the entry of the id whatever the updates hold and leave every other entry
\* as it was; for an id not stored they return null and the collection
\* stays as it was.
C23_UpdatePreserves ==
    IsUpdate =>
        /\ NotUpdated = result.other
        /\ Len(Updated) = Len(result.before)
        /\ \A i \in 1..Len(result.before) :
               i \notin Targets => Updated[i] = result.before[i]
        /\ \A i \in Targets :
               /\ Updated[i].id = result.before[i].id
               /\ Updated[i].createdAt = result.before[i].createdAt
               /\ result.returned = Updated[i]
        /\ Targets = {} => (result.returned = Null /\ Updated = result.before)

\* an update carrying another id and creation time made on one of two
\* weight entries, a millisecond after it was saved
C23_Witness ==
    /\ result.op = "updateWeightEntry"
    /\ "id" \in DOMAIN result.updates
    /\ "createdAt" \in DOMAIN result.updates
    /\ Len(result.before) = 2
    /\ Targets # {}
    /\ \E i \in Targets : Updated[i].weight # result.before[i].weight
                             /\ Updated[i].updatedAt # Updated[i].createdAt

Returned == {c \in Callers : pending[c].phase = "returned"}

IsStored(entry, entries) == \E i \in 1..Len(entries) : entries[i] = entry

\* C24: when two saves on one collection (two weight saves, or two waist
\* saves of different dates) run in any interleaving of their reads and
\* writes and both have returned an entry, both entries are stored.
C24_NoLostUpdate ==
    \A c \in Returned :
        InFlight = {} =>
            IF pending[c].op = "saveWeightEntry"
            THEN IsStored(pending[c].returned, weightEntries)
            ELSE IsStored(pending[c].returned, waistEntries)

\* C25: a save on the home screen made while date D is selected creates or
\* modifies only stored weight entries of date D, and no two stored weight
\* entries have the same date.
C25_SaveHitsSelectedDate ==
    /\ result.op = "handleSaveWeight" =>
           \A i \in 1..Len(weightEntries) :
               (i > Len(result.before) \/ weightEntries[i] # result.before[i])
                   => weightEntries[i].date = result.selected
    /\ \A i, j \in 1..Len(weightEntries) :
           weightEntries[i].date = weightEntries[j].date => i = j

\* what the handler stores when no call of AsyncStorage fails
Unfailing(r) ==
    IF r.op = "handleImport" THEN ImportOf(r.file, r.weightBefore, r.waistBefore)
    ELSE RestoreOf(r.file, r.weightBefore, r.waistBefore)

\* C26: when handleImport or confirmAndRestore ends, with or without a failed
\* call of clearAllData or of a write of importAllData, the stored collections
\* are both the collections stored before or both the collections of the file.
C26_ImportAtomic ==
    (result.op \in {"handleImport", "confirmAndRestore"} /\ "ok" \in DOMAIN result) =>
        \/ weightEntries = result.weightBefore /\ waistEntries = result.waistBefore
        \/ /\ weightEntries = Unfailing(result).weightEntries
           /\ waistEntries = Unfailing(result).waistEntries

\* C27: once no call of loadStats is in flight, the stats the hook holds are
\* those of the selected week and loading is false; while a call is in
\* flight, loading is true.
C27_StatsOfSelectedWeek ==
    analytics.mounted =>
        IF analytics.loads = {}
        THEN /\ analytics.stats # Null
             /\ analytics.stats.value.weekStart = currentWeekStart
             /\ ~analytics.loading
        ELSE analytics.loading

IdsOf(entries) == {entries[i].id : i \in 1..Len(entries)}

\* C28: after addEntry of useWaistLog has returned an entry, no two elements
\* of the list of the hook have the same id, and the list has one element for
\* each stored waist entry, also when the date had an entry before.
C28_ListedOnce ==
    result.op = "addWaist" =>
        /\ \A i, j \in 1..Len(waistLog.entries) :
               waistLog.entries[i].id = waistLog.entries[j].id => i = j
        /\ IdsOf(waistLog.entries) = IdsOf(waistEntries)
        /\ Len(waistLog.entries) = Len(waistEntries)

EntriesOf(entries) == {entries[i] : i \in 1..Len(entries)}

IsRoundTrip == result.op = "handleImport" /\ "exported" \in DOMAIN result

\* C29: the object exportAllData builds from a store of saved, updated and
\* deleted entries with positive values passes validateBackupData, and
\* clearAllData followed by importAllData of its lists leaves each collection
\* with the entries it had before the export, all fields equal.
C29_ExportImportLossless ==
    IsRoundTrip =>
        /\ validateBackupData(result.file.data)
        /\ result.calls = <<"clearAllData", "importAllData">>
        /\ EntriesOf(weightEntries) = EntriesOf(result.weightBefore)
        /\ Len(weightEntries) = Len(result.weightBefore)
        /\ EntriesOf(waistEntries) = EntriesOf(result.waistBefore)
        /\ Len(waistEntries) = Len(result.waistBefore)

\* two weight entries, one with notes and one updated, stored newest first
\* and imported oldest first, and a waist entry
C29_Witness ==
    /\ IsRoundTrip
    /\ Len(result.weightBefore) = 2
    /\ weightEntries # result.weightBefore
    /\ \E i \in 1..2 : weightEntries[i].notes # NoNotes
    /\ \E i \in 1..2 : weightEntries[i].weight = 790
    /\ Len(result.waistBefore) = 1

====
